---- MODULE Spec2Model ----
(***************************************************************************)
(* A model of the vui layout engine: observable cells with ordered         *)
(* listener lists (vui/observable.py), panes (vui/pane.py), views and       *)
(* their sizing/alignment (vui/view.py) and the stack and layered layouts   *)
(* (vui/layout.py).                                                         *)
(*                                                                          *)
(* The program is single threaded and every assignment to an observable     *)
(* attribute runs its whole listener cascade before it returns, so each     *)
(* action below is one top-level call and computes the complete cascade     *)
(* with the recursive operators Set / Notify / Call.                        *)
(*                                                                          *)
(* Encoding of Python values:                                               *)
(*   None            <<>>            (an Optional[x] that is set is <<x>>)  *)
(*   (x0,y0,x1,y1)   <<x0,y0,x1,y1>>                                        *)
(*   HAlign/VAlign   their enum values 1..4                                 *)
(*   numbers         integers; all sizes and coordinates are multiples of   *)
(*                   Grain, so that every true division the code performs   *)
(*                   (extra / 2, extra / count_flex) is exact.              *)
(***************************************************************************)
EXTENDS Integers, Sequences, FiniteSets, TLC

VARIABLES
    cells,      \* Observable objects: ref -> [value, obs]  (obs = _observers)
    attr,       \* instance attributes holding Observables: obj -> name -> ref
    views,      \* View objects: id -> [kind, children, pane, made]
                \* (made: how many Panes a parent layout has created for it)
    panes,      \* Pane objects: id -> [bg, alloc_bg, handlers]  (the two fill
                \* shapes and the event subscribers, most recently pushed first)
    err,        \* an exception escaped the top-level call (program aborted)
    calls,      \* history: invocations of logging callbacks in the last call
    upd,        \* history: stacks whose _update ran in the last call
    last,       \* history: the last top-level call and what it started from
    shown       \* history: the view hidden last and the derived sizes it had
                \* (in the _calc_coords scenario: the arguments and the result;
                \* in the pointer scenario: the child pressed and the button)

vars == <<cells, attr, views, panes, err, calls, upd, last, shown>>

(***************************************************************************)
(* Bounds                                                                  *)
(***************************************************************************)
MaxVal == 2      \* Observable values of the cell scenario: 0..MaxVal
MaxObs == 3      \* longest listener list of the cell scenario
MaxDim == 1      \* min_* / content_* sizes: 0..MaxDim grains (or None)
MaxSpan == 2     \* width and height of an allocated box: 0..MaxSpan grains
MaxAttach == 2   \* attach calls on one layout (each makes new child panes)

\* Two levels of at most two flex children, and the halving of CENTER.
Grain == 2 * 2 * 2

None == <<>>
Some(x) == <<x>>
NoPane == ""
NoObj == ""

Max(a, b) == IF a >= b THEN a ELSE b
Min(a, b) == IF a <= b THEN a ELSE b

\* Python's true division on the values that occur (exact, see Grain).
TrueDiv(a, b) == a \div b

(***************************************************************************)
(* Observable (vui/observable.py)                                          *)
(***************************************************************************)
\* A callable registered as listener: its identity, the object it is bound
\* to (__self__, NoObj for a plain function) and the function it runs.
Listener(id, self, fn) == [id |-> id, self |-> self, fn |-> fn]

\* Observable.__init__
NewObservable(value) == [value |-> value, obs |-> <<>>]

\* Observable.observe
ObserveM(obs, l) == <<l>> \o obs
Observe(obs, l) == Append(obs, l)

\* del self._observers[i]
DelAt(obs, i) == SubSeq(obs, 1, i - 1) \o SubSeq(obs, i + 1, Len(obs))

\* The test of Observable.remove_observer.
Matches(l, x) == l.id = x \/ l.self = x

\* Observable.remove_observer: the while loop from index i (1-based here).
RECURSIVE RemoveFromM(_, _, _)
RemoveFromM(obs, i, x) ==
    IF i > Len(obs) THEN obs
    ELSE IF Matches(obs[i], x) THEN RemoveFromM(DelAt(obs, i), i + 1, x)
    ELSE RemoveFromM(obs, i + 1, x)

RECURSIVE RemoveFrom(_, _, _)
RemoveFrom(obs, i, x) ==
    IF i > Len(obs) THEN obs
    ELSE IF Matches(obs[i], x) THEN RemoveFrom(DelAt(obs, i), i, x)
    ELSE RemoveFrom(obs, i + 1, x)

RemoveObserver(s, c, x) ==
    [s EXCEPT !.cells[c].obs = RemoveFrom(@, 1, x)]

\* The heap the cascade works on.
Heap == [cells |-> cells, attr |-> attr, views |-> views, panes |-> panes,
         err |-> err, calls |-> <<>>, upd |-> {}, ret |-> FALSE]

Raise(s) == [s EXCEPT !.err = TRUE]

\* Attribute.__get__ / _get_observable: the Observable behind obj.name
RefOf(s, obj, name) == s.attr[obj][name]
Get(s, obj, name) == s.cells[RefOf(s, obj, name)].value

\* A logging callback (the tests' Mock / counting function).
Log(s, l, v) == [s EXCEPT !.calls = Append(@, [l |-> l, v |-> v])]

RECURSIVE Set(_, _, _), Notify(_, _, _), Call(_, _, _)
RECURSIVE CalcWidth(_, _), CalcHeight(_, _), UpdatePane(_, _)
RECURSIVE UpdateContentWidth(_, _), UpdateContentHeight(_, _), Update(_, _)
RECURSIVE UpdateCoords(_, _, _), ObserveMousePos(_, _, _)

\* Pane._prepare_background_draw: the two fill shapes (pyglet Rectangles,
\* kept as box and colour).
Shape(box, color) == IF color = None THEN None ELSE <<box, color[1]>>

PrepareBackgroundDraw(s, p) ==
    [s EXCEPT !.panes[p].bg =
                  Shape(s.cells[s.attr[p].coords_].value,
                        s.cells[s.attr[p].background_color_].value),
              !.panes[p].alloc_bg =
                  Shape(s.cells[s.attr[p].alloc_coords_].value,
                        s.cells[s.attr[p].alloc_background_color_].value)]

\* Dispatch of one listener call: the bound method l.fn of object l.self.
Call(s, l, v) ==
    CASE l.fn = "log" -> Log(s, l, v)
      [] l.fn = "_calc_width" -> CalcWidth(s, l.self)
      [] l.fn = "_calc_height" -> CalcHeight(s, l.self)
      [] l.fn = "_update_pane" -> UpdatePane(s, l.self)
      [] l.fn = "_prepare_background_draw" -> PrepareBackgroundDraw(s, l.self)
      [] l.fn = "_update_content_width" -> UpdateContentWidth(s, l.self)
      [] l.fn = "_update_content_height" -> UpdateContentHeight(s, l.self)
      [] l.fn = "_update" -> Update(s, l.self)
      [] l.fn = "_update_coords" -> UpdateCoords(s, l.self, v)
      [] l.fn = "_observe_mouse_pos" -> ObserveMousePos(s, l.self, v)
      [] l.fn = "stop" -> RemoveObserver(Log(s, l, v), <<"o", "value">>, l.id)
      [] l.fn = "drop" -> RemoveObserver(Log(s, l, v), <<"o", "value">>, "f1")
      [] l.fn = "again" -> Set(Log(s, l, v), <<"o", "value">>, 0)
      [] l.fn = "clamp" -> IF v > 1 THEN Set(Log(s, l, v), <<"o", "value">>, 1)
                           ELSE Log(s, l, v)
      [] OTHER -> s

\* for observer in self._observers: observer(self.value)
\* (the list iterator re-reads the list's length and the cell's value)
NotifyM(s, c, i) ==
    IF s.err \/ i > Len(s.cells[c].obs) THEN s
    ELSE Notify(Call(s, s.cells[c].obs[Len(s.cells[c].obs) + 1 - i],
                     s.cells[c].value), c, i + 1)

Notify(s, c, i) ==
    IF s.err \/ i > Len(s.cells[c].obs) THEN s
    ELSE Notify(Call(s, s.cells[c].obs[i], s.cells[c].value), c, i + 1)

\* Observable.set
\* (a variant that hands every observer the argument of set)
RECURSIVE NotifyV(_, _, _, _)
NotifyV(s, c, i, v) ==
    IF s.err \/ i > Len(s.cells[c].obs) THEN s
    ELSE NotifyV(Call(s, s.cells[c].obs[i], v), c, i + 1, v)

SetV(s, c, v) ==
    IF s.err THEN s
    ELSE IF s.cells[c].value # v
         THEN NotifyV([s EXCEPT !.cells[c].value = v], c, 1, v)
         ELSE s

SetM(s, c, v) ==
    IF s.err THEN s
    ELSE Notify([s EXCEPT !.cells[c].value = v], c, 1)

Set(s, c, v) ==
    IF s.err THEN s
    ELSE IF s.cells[c].value # v
         THEN Notify([s EXCEPT !.cells[c].value = v], c, 1)
         ELSE s

\* Attribute.__set__
SetAttr(s, obj, name, v) == Set(s, RefOf(s, obj, name), v)

\* The state after a top-level call that left heap s.
Commit(s) ==
    /\ cells' = s.cells
    /\ attr' = s.attr
    /\ views' = s.views
    /\ panes' = s.panes
    /\ err' = s.err
    /\ calls' = s.calls
    /\ upd' = s.upd

(***************************************************************************)
(* Pane (vui/pane.py) and View (vui/view.py)                               *)
(***************************************************************************)
\* A bound method obj.fn, created anew at each attribute access.
Method(obj, fn) == Listener("", obj, fn)

ObserveCell(s, c, l) == [s EXCEPT !.cells[c].obs = Observe(@, l)]

\* A subscriber of a pane's events: the bound method self.fn, run for event ev
\* with priority prio (0 unless the method is decorated).
Handler(ev, self, fn, prio) == [ev |-> ev, self |-> self, fn |-> fn, prio |-> prio]

\* @event.priority(1) def on_draw(self): the pane's own subscriber, which
\* paints the two fills.
PaneHandlersM(p) == <<Handler("on_draw", p, "on_draw", 0)>>
PaneHandlers(p) == <<Handler("on_draw", p, "on_draw", 1)>>

\* Pane.__init__(x0, y0, x1, y1): both boxes start as the given box, no
\* background colours.
NewPane(s, p, box) ==
    LET pbd == Method(p, "_prepare_background_draw")
        s1 == [s EXCEPT
                 !.cells = @ @@
                    (<<p, "alloc_coords">> :> NewObservable(box)) @@
                    (<<p, "coords">> :> [value |-> box, obs |-> <<pbd>>]) @@
                    (<<p, "mouse_pos">> :> NewObservable(None)) @@
                    (<<p, "alloc_background_color">> :>
                        [value |-> None, obs |-> <<pbd>>]) @@
                    (<<p, "background_color">> :>
                        [value |-> None, obs |-> <<pbd>>]),
                 !.attr = @ @@ (p :>
                    [alloc_coords_ |-> <<p, "alloc_coords">>,
                     coords_ |-> <<p, "coords">>,
                     mouse_pos_ |-> <<p, "mouse_pos">>,
                     alloc_background_color_ |-> <<p, "alloc_background_color">>,
                     background_color_ |-> <<p, "background_color">>]),
                 !.panes = @ @@ (p :> [bg |-> None, alloc_bg |-> None,
                                       handlers |-> PaneHandlers(p)])]
    IN PrepareBackgroundDraw(s1, p)

\* HAlign / VAlign
LEFT == 1
BOTTOM == 1
CENTER == 2
RIGHT == 3
TOP == 3
FILL == 4

\* _calc_coords(lo, hi, dim, align); <<>> stands for the ValueError.
CalcCoordsM(lo, hi, dim, align) ==
    LET extra == hi - lo - dim IN
    IF align = 4 \/ extra <= 0 THEN <<lo, hi>>
    ELSE IF align = 1 THEN <<lo, lo + dim>>
    ELSE IF align = 2 THEN <<lo + TrueDiv(extra, 2), hi>>
    ELSE IF align = 3 THEN <<hi - dim, hi>>
    ELSE <<>>

CalcCoords(lo, hi, dim, align) ==
    LET extra == hi - lo - dim IN
    IF align = 4 \/ extra <= 0 THEN <<lo, hi>>
    ELSE IF align = 1 THEN <<lo, lo + dim>>
    ELSE IF align = 2
         THEN LET l == lo + TrueDiv(extra, 2) IN <<l, l + dim>>
    ELSE IF align = 3 THEN <<hi - dim, hi>>
    ELSE <<>>

\* View._calc_width
CalcWidthM(s, v) ==
    IF Get(s, v, "min_width_") = None
    THEN IF Get(s, v, "content_width_") = None
         THEN SetAttr(s, v, "derived_width_", 0)
         ELSE SetAttr(s, v, "derived_width_", Get(s, v, "content_width_")[1])
    ELSE SetAttr(s, v, "derived_width_", Get(s, v, "min_width_")[1])

CalcWidth(s, v) ==
    IF Get(s, v, "hidden_") THEN SetAttr(s, v, "derived_width_", 0)
    ELSE IF Get(s, v, "min_width_") = None
    THEN IF Get(s, v, "content_width_") = None
         THEN SetAttr(s, v, "derived_width_", 0)
         ELSE SetAttr(s, v, "derived_width_", Get(s, v, "content_width_")[1])
    ELSE SetAttr(s, v, "derived_width_", Get(s, v, "min_width_")[1])

\* View._calc_height
CalcHeight(s, v) ==
    IF Get(s, v, "hidden_") THEN SetAttr(s, v, "derived_height_", 0)
    ELSE IF Get(s, v, "min_height_") = None
    THEN IF Get(s, v, "content_height_") = None
         THEN SetAttr(s, v, "derived_height_", 0)
         ELSE SetAttr(s, v, "derived_height_", Get(s, v, "content_height_")[1])
    ELSE SetAttr(s, v, "derived_height_", Get(s, v, "min_height_")[1])

\* View._update_pane
\* (a variant in which the allocated width decides flex_height)
UpdatePaneF(s, v) ==
    IF s.views[v].pane = NoPane THEN s
    ELSE LET p == s.views[v].pane
             a == Get(s, p, "alloc_coords_")
             x == CalcCoords(a[1], a[3], Get(s, v, "derived_width_"),
                             Get(s, v, "halign_"))
             y == CalcCoords(a[2], a[4], Get(s, v, "derived_height_"),
                             Get(s, v, "valign_"))
         IN IF x = <<>> \/ y = <<>> THEN Raise(s)
            ELSE SetAttr(SetAttr(s, p, "coords_", <<x[1], y[1], x[2], y[2]>>),
                         v, "flex_height_", a[3] - a[1] > MaxSpan * Grain)

UpdatePaneM(s, v) ==
    IF s.views[v].pane = NoPane THEN s
    ELSE LET p == s.views[v].pane
             a == Get(s, p, "alloc_coords_")
             x == CalcCoords(a[1], a[3], Get(s, v, "derived_width_"),
                             Get(s, v, "halign_"))
             y == CalcCoords(a[2], a[4], Get(s, v, "derived_height_"),
                             Get(s, v, "halign_"))
         IN IF x = <<>> \/ y = <<>> THEN Raise(s)
            ELSE SetAttr(s, p, "coords_", <<x[1], y[1], x[2], y[2]>>)

UpdatePane(s, v) ==
    IF s.views[v].pane = NoPane THEN s
    ELSE LET p == s.views[v].pane
             a == Get(s, p, "alloc_coords_")
             x == CalcCoords(a[1], a[3], Get(s, v, "derived_width_"),
                             Get(s, v, "halign_"))
             y == CalcCoords(a[2], a[4], Get(s, v, "derived_height_"),
                             Get(s, v, "valign_"))
         IN IF x = <<>> \/ y = <<>> THEN Raise(s)
            ELSE SetAttr(s, p, "coords_", <<x[1], y[1], x[2], y[2]>>)

\* The constructor's keyword defaults.
ViewDefaults ==
    [min_width |-> None, min_height |-> None, flex_width |-> TRUE,
     flex_height |-> TRUE, halign |-> FILL, valign |-> FILL,
     background_color |-> None, hidden |-> FALSE]

\* make_observable(x) for the keyword name of view v: an Observable passed
\* in (ext[name]) is used as it is, a value is wrapped in a new one.
MakeObservable(s, v, name, lit, ext) ==
    IF name \in DOMAIN ext THEN s
    ELSE [s EXCEPT !.cells = @ @@ (<<v, name>> :> NewObservable(lit[name]))]

MadeRef(v, name, ext) ==
    IF name \in DOMAIN ext THEN ext[name] ELSE <<v, name>>

\* View.__init__: lit gives the keyword values, ext the keywords that were
\* given an Observable.
NewView(s, v, kind, children, lit, ext) ==
    LET r == [n \in {"min_width", "min_height", "flex_width", "flex_height",
                     "halign", "valign", "background_color", "hidden"}
                 |-> MadeRef(v, n, ext)]
        s0 == [s EXCEPT
                 !.views = @ @@ (v :> [kind |-> kind, children |-> children,
                                       pane |-> NoPane, made |-> 0]),
                 !.attr = @ @@ (v :>
                    [min_width_ |-> r["min_width"],
                     min_height_ |-> r["min_height"],
                     content_width_ |-> <<v, "content_width">>,
                     content_height_ |-> <<v, "content_height">>,
                     derived_width_ |-> <<v, "derived_width">>,
                     derived_height_ |-> <<v, "derived_height">>,
                     flex_width_ |-> r["flex_width"],
                     flex_height_ |-> r["flex_height"],
                     halign_ |-> r["halign"],
                     valign_ |-> r["valign"],
                     background_color_ |-> r["background_color"],
                     hidden_ |-> r["hidden"]])]
        s1 == MakeObservable(MakeObservable(s0, v, "min_width", lit, ext),
                             v, "min_height", lit, ext)
        s2 == [s1 EXCEPT !.cells = @ @@
                  (<<v, "content_width">> :> NewObservable(None)) @@
                  (<<v, "content_height">> :> NewObservable(None))]
        s3 == ObserveCell(s2, r["min_width"], Method(v, "_calc_width"))
        s4 == ObserveCell(s3, r["min_height"], Method(v, "_calc_height"))
        s5 == ObserveCell(s4, <<v, "content_width">>, Method(v, "_calc_width"))
        s6 == ObserveCell(s5, <<v, "content_height">>, Method(v, "_calc_height"))
        s7 == [s6 EXCEPT !.cells = @ @@
                  (<<v, "derived_width">> :>
                      [value |-> 0, obs |-> <<Method(v, "_update_pane")>>]) @@
                  (<<v, "derived_height">> :>
                      [value |-> 0, obs |-> <<Method(v, "_update_pane")>>])]
        s8 == MakeObservable(MakeObservable(s7, v, "flex_width", lit, ext),
                             v, "flex_height", lit, ext)
        s9 == MakeObservable(MakeObservable(s8, v, "halign", lit, ext),
                             v, "valign", lit, ext)
        s10 == ObserveCell(s9, r["halign"], Method(v, "_update_pane"))
        s11 == ObserveCell(s10, r["valign"], Method(v, "_update_pane"))
        s12 == MakeObservable(MakeObservable(s11, v, "background_color", lit, ext),
                              v, "hidden", lit, ext)
        s13 == ObserveCell(s12, r["hidden"], Method(v, "_calc_width"))
        s14 == ObserveCell(s13, r["hidden"], Method(v, "_calc_height"))
    IN CalcHeight(CalcWidth(s14, v), v)

\* Pane.remove_observer
PaneRemoveObserverM(s, p, x) ==
    LET s2 == RemoveObserver(s, s.attr[p].coords_, x)
        s3 == RemoveObserver(s2, s.attr[p].mouse_pos_, x)
    IN RemoveObserver(s3, s.attr[p].background_color_, x)

PaneRemoveObserver(s, p, x) ==
    LET s1 == RemoveObserver(s, s.attr[p].alloc_coords_, x)
        s2 == RemoveObserver(s1, s.attr[p].coords_, x)
        s3 == RemoveObserver(s2, s.attr[p].mouse_pos_, x)
    IN RemoveObserver(s3, s.attr[p].background_color_, x)

\* Pane.swap_background(cell): the pane's background_color_ becomes cell (a
\* ref, or None). Reading background_color with the attribute None makes
\* Attribute._get_observable install a new Observable(None).
SwapBackground(s, p, cell) ==
    LET s1 == RemoveObserver(s, s.attr[p].background_color_, p)
        s2 == IF cell = None
              THEN [s1 EXCEPT
                      !.cells = (<<p, "background_color'">> :> NewObservable(None))
                                @@ @,
                      !.attr[p].background_color_ = <<p, "background_color'">>]
              ELSE [s1 EXCEPT !.attr[p].background_color_ = cell[1]]
    IN PrepareBackgroundDraw(s2, p)

\* The event methods a view class defines: none in View, all in the layouts
\* and in the tests' FakeView (which counts the calls).
OwnHandlers(s, v) ==
    IF s.views[v].kind = "View" THEN <<>>
    ELSE <<Handler("on_draw", v, "on_draw", 0),
           Handler("on_mouse_drag", v, "on_mouse_drag", 0),
           Handler("on_mouse_press", v, "on_mouse_press", 0),
           Handler("on_mouse_release", v, "on_mouse_release", 0),
           Handler("on_mouse_scroll", v, "on_mouse_scroll", 0)>>

\* pane.push_handlers(...): the new subscribers go on top of the stack.
PushHandlers(s, p, hs) == [s EXCEPT !.panes[p].handlers = hs \o @]

\* pane.remove_handlers(obj): no subscriber of obj stays on the pane.
RemoveHandlers(s, p, obj) ==
    [s EXCEPT !.panes[p].handlers = SelectSeq(@, LAMBDA h : h.self # obj)]

\* View.detach
ViewDetachM(s, v) ==
    IF s.views[v].pane = NoPane THEN s
    ELSE SwapBackground(s, s.views[v].pane, None)

ViewDetach(s, v) ==
    IF s.views[v].pane = NoPane THEN s
    ELSE LET p == s.views[v].pane
         IN SwapBackground(PaneRemoveObserver(RemoveHandlers(s, p, v), p, v),
                           p, None)

\* View.attach(pane) after its first statement, self.detach(), which is the
\* layout's detach for a layout (see Attach).
ViewAttach(s, v, p) ==
    LET s0 == [s EXCEPT !.views[v].pane = p]
        s1 == PushHandlers(PushHandlers(s0, p, OwnHandlers(s0, v)), p,
                  <<Handler("on_draw", v, "on_draw_check_hidden", 2)>>)
        s2 == SwapBackground(s1, p, Some(s1.attr[v].background_color_))
        s3 == ObserveCell(s2, s2.attr[p].alloc_coords_, Method(v, "_update_pane"))
    IN UpdatePane(s3, v)

(***************************************************************************)
(* Layouts (vui/layout.py)                                                 *)
(***************************************************************************)
RECURSIVE SumSeq(_)
SumSeq(q) == IF q = <<>> THEN 0 ELSE q[1] + SumSeq(Tail(q))

RECURSIVE MaxSeq(_)
MaxSeq(q) == IF Len(q) = 1 THEN q[1] ELSE Max(q[1], MaxSeq(Tail(q)))

DerivedWidths(s, v) ==
    [i \in 1..Len(s.views[v].children) |->
        Get(s, s.views[v].children[i], "derived_width_")]

DerivedHeights(s, v) ==
    [i \in 1..Len(s.views[v].children) |->
        Get(s, s.views[v].children[i], "derived_height_")]

\* HStackLayout._calc_content_width / VStackLayout._calc_content_width
CalcContentWidth(s, v) ==
    IF s.views[v].kind = "HStackLayout" THEN SumSeq(DerivedWidths(s, v))
    ELSE MaxSeq(DerivedWidths(s, v))

\* HStackLayout._calc_content_height / VStackLayout._calc_content_height
CalcContentHeight(s, v) ==
    IF s.views[v].kind = "VStackLayout" THEN SumSeq(DerivedHeights(s, v))
    ELSE MaxSeq(DerivedHeights(s, v))

\* StackLayout._update_content_width, LayersLayout._update_content_width
UpdateContentWidth(s, v) ==
    IF s.views[v].kind = "LayersLayout"
    THEN SetAttr(s, v, "content_width_", Some(MaxSeq(DerivedWidths(s, v))))
    ELSE Update(SetAttr(s, v, "content_width_", Some(CalcContentWidth(s, v))), v)

\* StackLayout._update_content_height, LayersLayout._update_content_height
UpdateContentHeight(s, v) ==
    IF s.views[v].kind = "LayersLayout"
    THEN SetAttr(s, v, "content_height_", Some(MaxSeq(DerivedHeights(s, v))))
    ELSE Update(SetAttr(s, v, "content_height_", Some(CalcContentHeight(s, v))), v)

\* sum(child.flex_width for child in self.children if not child.hidden)
CountFlex(s, v, flex) ==
    Cardinality({i \in 1..Len(s.views[v].children) :
        /\ ~Get(s, s.views[v].children[i], "hidden_")
        /\ Get(s, s.views[v].children[i], flex)})

\* The loop of HStackLayout._update from child i on, the cursor at x;
\* c is the stack pane's coords.  A child without pane is an AttributeError.
RECURSIVE HLoop(_, _, _, _, _, _)
HLoopM(s, v, i, x, extra, c) ==
    IF s.err \/ i > Len(s.views[v].children) THEN s
    ELSE LET ch == s.views[v].children[i]
             next_x == IF extra <= 0
                       THEN Min(x + Get(s, ch, "derived_width_"), c[3])
                       ELSE x + Get(s, ch, "derived_width_") + extra
         IN IF Get(s, ch, "hidden_") THEN HLoop(s, v, i + 1, x, extra, c)
            ELSE IF s.views[ch].pane = NoPane THEN Raise(s)
            ELSE HLoop(SetAttr(s, s.views[ch].pane, "alloc_coords_",
                               <<x, c[2], next_x, c[4]>>),
                       v, i + 1, next_x, extra, c)

HLoop(s, v, i, x, extra, c) ==
    IF s.err \/ i > Len(s.views[v].children) THEN s
    ELSE LET ch == s.views[v].children[i]
             next_x == IF extra <= 0 \/ ~Get(s, ch, "flex_width_")
                       THEN Min(x + Get(s, ch, "derived_width_"), c[3])
                       ELSE x + Get(s, ch, "derived_width_") + extra
         IN IF Get(s, ch, "hidden_") THEN HLoop(s, v, i + 1, x, extra, c)
            ELSE IF s.views[ch].pane = NoPane THEN Raise(s)
            ELSE HLoop(SetAttr(s, s.views[ch].pane, "alloc_coords_",
                               <<x, c[2], next_x, c[4]>>),
                       v, i + 1, next_x, extra, c)

\* The loop of VStackLayout._update from child i on, the cursor at y.
RECURSIVE VLoop(_, _, _, _, _, _)
VLoopM(s, v, i, y, extra, c) ==
    IF s.err \/ i > Len(s.views[v].children) THEN s
    ELSE LET ch == s.views[v].children[i]
             y0 == c[4] - (y - c[2])
             next_y == IF extra <= 0 \/ ~Get(s, ch, "flex_height_")
                       THEN Max(y - Get(s, ch, "derived_height_"), c[2])
                       ELSE y - Get(s, ch, "derived_height_") - extra
         IN IF Get(s, ch, "hidden_") THEN VLoop(s, v, i + 1, y, extra, c)
            ELSE IF s.views[ch].pane = NoPane THEN Raise(s)
            ELSE VLoop(SetAttr(s, s.views[ch].pane, "alloc_coords_",
                               <<c[1], y0, c[3], y0 + (y - next_y)>>),
                       v, i + 1, next_y, extra, c)

VLoop(s, v, i, y, extra, c) ==
    IF s.err \/ i > Len(s.views[v].children) THEN s
    ELSE LET ch == s.views[v].children[i]
             next_y == IF extra <= 0 \/ ~Get(s, ch, "flex_height_")
                       THEN Max(y - Get(s, ch, "derived_height_"), c[2])
                       ELSE y - Get(s, ch, "derived_height_") - extra
         IN IF Get(s, ch, "hidden_") THEN VLoop(s, v, i + 1, y, extra, c)
            ELSE IF s.views[ch].pane = NoPane THEN Raise(s)
            ELSE VLoop(SetAttr(s, s.views[ch].pane, "alloc_coords_",
                               <<c[1], next_y, c[3], y>>),
                       v, i + 1, next_y, extra, c)

\* HStackLayout._update / VStackLayout._update (self.pane None: AttributeError)
Update(s, v) ==
    IF s.err THEN s
    ELSE IF s.views[v].pane = NoPane THEN Raise(s)
    ELSE LET c == Get(s, s.views[v].pane, "coords_")
             s1 == [s EXCEPT !.upd = @ \cup {v}]
         IN IF s.views[v].kind = "HStackLayout"
            THEN HLoop(s1, v, 1, c[1],
                       TrueDiv((c[3] - c[1]) - Get(s, v, "derived_width_"),
                               Max(CountFlex(s, v, "flex_width_"), 1)), c)
            ELSE VLoop(s1, v, 1, c[4],
                       TrueDiv((c[4] - c[2]) - Get(s, v, "derived_height_"),
                               Max(CountFlex(s, v, "flex_height_"), 1)), c)

\* LayersLayout._update_coords(coords)
RECURSIVE LayersLoop(_, _, _, _)
LayersLoop(s, v, i, coords) ==
    IF s.err \/ i > Len(s.views[v].children) THEN s
    ELSE LET ch == s.views[v].children[i]
         IN IF s.views[ch].pane = NoPane THEN Raise(s)
            ELSE LayersLoop(SetAttr(s, s.views[ch].pane, "alloc_coords_", coords),
                            v, i + 1, coords)

UpdateCoords(s, v, coords) == LayersLoop(s, v, 1, coords)

\* for child in children: child.derived_width_.observe(...); ...height...
RECURSIVE ObserveChildren(_, _, _)
ObserveChildren(s, v, i) ==
    IF i > Len(s.views[v].children) THEN s
    ELSE LET ch == s.views[v].children[i]
             s1 == ObserveCell(s, s.attr[ch].derived_width_,
                               Method(v, "_update_content_width"))
             s2 == ObserveCell(s1, s.attr[ch].derived_height_,
                               Method(v, "_update_content_height"))
         IN ObserveChildren(s2, v, i + 1)

\* StackLayout.__init__ (kind HStackLayout or VStackLayout); the content
\* sizes are assigned without a partition pass.
NewStack(s, v, kind, children, lit, ext) ==
    LET s0 == [NewView(s, v, kind, children, lit, ext) EXCEPT
                 !.views[v] = @ @@ [mouseover |-> NoPane, dragging |-> NoPane,
                                    dragbtn |-> 0]]
        s1 == ObserveChildren(s0, v, 1)
        s2 == SetAttr(s1, v, "content_width_", Some(CalcContentWidth(s1, v)))
    IN SetAttr(s2, v, "content_height_", Some(CalcContentHeight(s2, v)))

\* LayersLayout.__init__
NewLayers(s, v, children, lit, ext) ==
    LET s1 == ObserveChildren(NewView(s, v, "LayersLayout", children, lit, ext),
                              v, 1)
    IN UpdateContentHeight(UpdateContentWidth(s1, v), v)

IsLayout(s, v) == s.views[v].kind \in {"HStackLayout", "VStackLayout", "LayersLayout"}

\* The names of the Pane objects a layout creates for child ch, in order:
\* "pA", "pA'", ... (every attach of a layout makes new child panes).
RECURSIVE Primed(_, _)
Primed(name, k) == IF k = 1 THEN name ELSE Primed(name, k - 1) \o "'"

PaneNames ==
    [ch \in {"A", "B", "C", "S"} |-> [k \in 1..MaxAttach |-> Primed("p" \o ch, k)]]

\* StackLayout.detach / LayersLayout.detach / View.detach
RECURSIVE Detach(_, _), DetachChildren(_, _, _)
DetachChildren(s, v, i) ==
    IF i > Len(s.views[v].children) THEN s
    ELSE DetachChildren(Detach(s, s.views[v].children[i]), v, i + 1)

Detach(s, v) ==
    IF IsLayout(s, v) THEN ViewDetach(DetachChildren(s, v, 1), v)
    ELSE ViewDetach(s, v)

\* StackLayout.attach / LayersLayout.attach / View.attach
RECURSIVE Attach(_, _, _), AttachChildren(_, _, _, _)

\* for child in self.children: child.attach(Pane(*box))
AttachChildren(s, v, i, box) ==
    IF s.err \/ i > Len(s.views[v].children) THEN s
    ELSE LET ch == s.views[v].children[i]
             p == PaneNames[ch][s.views[ch].made + 1]
             s1 == [NewPane(s, p, box) EXCEPT !.views[ch].made = @ + 1]
         IN AttachChildren(Attach(s1, ch, p), v, i + 1, box)

Attach(s, v, p) ==
    LET s1 == ViewAttach(Detach(s, v), v, p)
        c == Get(s1, p, "coords_")
    IN IF s1.err THEN s1
       ELSE IF s.views[v].kind \in {"HStackLayout", "VStackLayout"}
       THEN LET s2 == ObserveCell(s1, s1.attr[p].coords_, Method(v, "_update"))
                s3 == ObserveCell(s2, s2.attr[p].mouse_pos_,
                                  Method(v, "_observe_mouse_pos"))
                box == IF s.views[v].kind = "HStackLayout"
                       THEN <<c[1], c[4], c[3], c[4]>>
                       ELSE <<c[1], c[2], c[1], c[4]>>
            IN Update(AttachChildren(s3, v, 1, box), v)
       ELSE IF s.views[v].kind = "LayersLayout"
       THEN LET s2 == ObserveCell(s1, s1.attr[p].coords_,
                                  Method(v, "_update_coords"))
                s3 == ObserveCell(s2, s2.attr[p].mouse_pos_,
                                  Method(v, "_observe_mouse_pos"))
            IN AttachChildren(s3, v, 1, c)
       ELSE s1

(***************************************************************************)
(* Events: Pane.dispatch_event and the handlers of the layouts             *)
(***************************************************************************)
\* Pane.contains
ContainsM(s, p, pt) ==
    LET c == Get(s, p, "alloc_coords_")
    IN c[1] <= pt[1] /\ pt[1] < c[3] /\ c[2] <= pt[2] /\ pt[2] < c[4]

Contains(s, p, pt) ==
    LET c == Get(s, p, "coords_")
    IN c[1] <= pt[1] /\ pt[1] < c[3] /\ c[2] <= pt[2] /\ pt[2] < c[4]

\* The outcome of a search that hit "assert child_pane is not None".
Failed == "AssertionError"

\* StackLayout._find_child_pane: the cached pane if it contains the point,
\* else the first child in list order whose pane does.
RECURSIVE ScanChildren(_, _, _, _)
ScanChildren(s, v, i, pt) ==
    IF i > Len(s.views[v].children) THEN NoPane
    ELSE LET p == s.views[s.views[v].children[i]].pane
         IN IF p = NoPane THEN Failed
            ELSE IF Contains(s, p, pt) THEN p
            ELSE ScanChildren(s, v, i + 1, pt)

FindChildPane(s, v, pt) ==
    LET m == s.views[v].mouseover
    IN IF m # NoPane /\ Contains(s, m, pt) THEN m ELSE ScanChildren(s, v, 1, pt)

\* LayersLayout._top_pane: the pane of the last child that is not hidden.
RECURSIVE TopPane(_, _, _)
TopPane(s, v, i) ==
    IF i = 0 THEN NoPane
    ELSE IF ~Get(s, s.views[v].children[i], "hidden_")
         THEN s.views[s.views[v].children[i]].pane
         ELSE TopPane(s, v, i - 1)

\* button & self._dragging_button
RECURSIVE BitAnd(_, _)
BitAndM(a, b) == Min(a, b)
BitAnd(a, b) ==
    IF a = 0 \/ b = 0 THEN 0
    ELSE (a % 2) * (b % 2) + 2 * BitAnd(a \div 2, b \div 2)

RECURSIVE Dispatch(_, _, _, _), Deliver(_, _, _, _), Handle(_, _, _)
RECURSIVE DrawChildren(_, _, _)

\* StackLayout.on_draw / LayersLayout.on_draw
DrawChildrenM(s, v, i) ==
    IF s.err \/ i > Len(s.views[v].children) THEN [s EXCEPT !.ret = FALSE]
    ELSE LET p == s.views[s.views[v].children[Len(s.views[v].children) + 1 - i]].pane
         IN IF p = NoPane THEN Raise(s)
            ELSE DrawChildren(Dispatch(s, p, "on_draw", <<>>), v, i + 1)

DrawChildren(s, v, i) ==
    IF s.err \/ i > Len(s.views[v].children) THEN [s EXCEPT !.ret = FALSE]
    ELSE LET p == s.views[s.views[v].children[i]].pane
         IN IF p = NoPane THEN Raise(s)
            ELSE DrawChildren(Dispatch(s, p, "on_draw", <<>>), v, i + 1)

\* StackLayout.on_mouse_drag(x, y, dx, dy, buttons, modifiers), a = <<x, y,
\* buttons>>
StackOnMouseDrag(s, v, a) ==
    LET idle == s.views[v].dragging = NoPane
        f == FindChildPane(s, v, a)
        s1 == IF idle
              THEN [s EXCEPT !.views[v].dragbtn = a[3],
                             !.views[v].dragging = IF f = Failed THEN NoPane ELSE f]
              ELSE s
        d == s1.views[v].dragging
    IN IF idle /\ f = Failed THEN Raise(s1)
       ELSE IF d # NoPane
       THEN [Dispatch(s1, d, "on_mouse_drag", a) EXCEPT !.ret = FALSE]
       ELSE s1

\* StackLayout.on_mouse_press / on_mouse_release / on_mouse_scroll,
\* a = <<x, y, button>> (<<x, y, scroll_y>> for a scroll)
StackOnMouse(s, v, ev, a) ==
    LET s1 == IF ev = "on_mouse_release" /\ BitAnd(a[3], s.views[v].dragbtn) # 0
              THEN [s EXCEPT !.views[v].dragging = NoPane,
                             !.views[v].dragbtn = 0]
              ELSE s
        p == FindChildPane(s1, v, a)
    IN IF p = Failed THEN Raise(s1)
       ELSE IF p # NoPane THEN Dispatch(s1, p, ev, a)
       ELSE s1

\* One subscriber called with the arguments a; s.ret tells whether it
\* returned EVENT_HANDLED. The subscribers are View.on_draw_check_hidden,
\* Pane.on_draw, the counting methods of FakeView, on_draw of the layouts,
\* LayersLayout.on_mouse_* (to the top pane, returning None) and
\* StackLayout.on_mouse_*.
Handle(s, h, a) ==
    CASE h.fn = "on_draw_check_hidden" ->
            [s EXCEPT !.ret = Get(s, h.self, "hidden_")]
      [] h.self \in DOMAIN s.panes ->
            Log(s, Method(h.self, "on_draw"),
                <<s.panes[h.self].alloc_bg, s.panes[h.self].bg>>)
      [] s.views[h.self].kind = "FakeView" -> Log(s, Method(h.self, h.fn), a)
      [] h.ev = "on_draw" -> DrawChildren(s, h.self, 1)
      [] s.views[h.self].kind = "LayersLayout" ->
            LET p == TopPane(s, h.self, Len(s.views[h.self].children))
            IN IF p # NoPane THEN [Dispatch(s, p, h.ev, a) EXCEPT !.ret = FALSE]
               ELSE s
      [] h.ev = "on_mouse_drag" -> StackOnMouseDrag(s, h.self, a)
      [] OTHER -> StackOnMouse(s, h.self, h.ev, a)

\* The subscribers hs called in turn until one returns EVENT_HANDLED.
Deliver(s, hs, i, a) ==
    IF s.err \/ i > Len(hs) THEN s
    ELSE LET s1 == Handle([s EXCEPT !.ret = FALSE], hs[i], a)
         IN IF s1.ret THEN s1 ELSE Deliver(s1, hs, i + 1, a)

\* The subscribers of event ev in the order of their calls: higher priority
\* first, among equals the one pushed last first.
Subscribers(hs, ev) ==
    SelectSeq(hs, LAMBDA h : h.ev = ev /\ h.prio = 2)
    \o SelectSeq(hs, LAMBDA h : h.ev = ev /\ h.prio = 1)
    \o SelectSeq(hs, LAMBDA h : h.ev = ev /\ h.prio = 0)

\* pane.dispatch_event(ev, *a)
Dispatch(s, p, ev, a) ==
    Deliver([s EXCEPT !.ret = FALSE], Subscribers(s.panes[p].handlers, ev), 1, a)

\* StackLayout._observe_mouse_pos(pos) / LayersLayout._observe_mouse_pos(pos)
ObserveMousePos(s, v, pos) ==
    IF s.views[v].kind = "LayersLayout"
    THEN LET p == TopPane(s, v, Len(s.views[v].children))
         IN IF p # NoPane THEN SetAttr(s, p, "mouse_pos_", pos) ELSE s
    ELSE LET m == s.views[v].mouseover
             s1 == IF m # NoPane THEN SetAttr(s, m, "mouse_pos_", None) ELSE s
             f == FindChildPane(s1, v, pos)
             s2 == [s1 EXCEPT !.views[v].mouseover = f]
         IN IF pos = None THEN s1
            ELSE IF m # NoPane /\ Contains(s, m, pos)
            THEN SetAttr(s, m, "mouse_pos_", pos)
            ELSE IF s1.err THEN s1
            ELSE IF f = Failed THEN Raise(s1)
            ELSE IF f # NoPane THEN SetAttr(s2, f, "mouse_pos_", pos)
            ELSE s2

(***************************************************************************)
(* Scenario: one Observable and its clients (pygui/test_observable.py)     *)
(***************************************************************************)
Cell == <<"o", "value">>

\* Two plain functions, and two bound-method objects of one object X.
ObsListeners ==
    { Listener("f1", NoObj, "log"), Listener("f2", NoObj, "log"),
      Listener("m1", "X", "log"), Listener("m2", "X", "log") }

\* What a client may pass to remove_observer.
ObsRemoveArgs == {"f1", "f2", "m1", "X"}

\* History kept for the claims: the call, the cell before it, the calls the
\* call before it made, and the call before it.
Snap(op, arg) ==
    [op |-> op, arg |-> arg, val |-> cells[Cell].value,
     obs |-> cells[Cell].obs, calls0 |-> calls,
     p |-> [op |-> last.op, arg |-> last.arg, obs |-> last.obs]]

NoCall == [op |-> "init", arg |-> <<>>, val |-> 0, obs |-> <<>>,
           calls0 |-> <<>>, p |-> [op |-> "none", arg |-> <<>>, obs |-> <<>>]]

InitObs ==
    /\ cells = [c \in {Cell} |-> NewObservable(1)]
    /\ attr = <<>>
    /\ views = <<>>
    /\ panes = <<>>
    /\ err = FALSE
    /\ calls = <<>>
    /\ upd = {}
    /\ last = NoCall
    /\ shown = <<>>

\* o.set(v)
ObsSet(v) ==
    /\ ~err
    /\ Commit(Set(Heap, Cell, v))
    /\ last' = Snap("set", v)
    /\ UNCHANGED shown

\* o.observe(l)
ObsObserve(l) ==
    /\ ~err
    /\ Len(cells[Cell].obs) < MaxObs
    /\ Commit([Heap EXCEPT !.cells[Cell].obs = Observe(@, l)])
    /\ last' = Snap("observe", l)
    /\ UNCHANGED shown

\* o.remove_observer(x)
ObsRemove(x) ==
    /\ ~err
    /\ Commit(RemoveObserver(Heap, Cell, x))
    /\ last' = Snap("remove", x)
    /\ UNCHANGED shown

NextObs ==
    \/ \E v \in 0..MaxVal : ObsSet(v)
    \/ \E l \in ObsListeners : ObsObserve(l)
    \/ \E x \in ObsRemoveArgs : ObsRemove(x)

SpecObs == InitObs /\ [][NextObs]_vars

(***************************************************************************)
(* Claims about the Observable                                             *)
(***************************************************************************)
\* The calls that invoke every listener of obs once, in list order, with v.
CallsOf(obs, v) == [i \in 1..Len(obs) |-> [l |-> obs[i], v |-> v]]

\* How often the callable with identity id occurs in a sequence of listeners.
Occurs(ls, id) == Cardinality({i \in 1..Len(ls) : ls[i].id = id})
Called(cs, id) == Cardinality({i \in 1..Len(cs) : cs[i].l.id = id})

\* C1: set(v) with v equal to the current value c changes nothing and invokes
\* no listener; set(v) with v # c stores v and invokes every registered
\* listener with v (as often as it is registered); two consecutive set(v)
\* with the same v invoke no registration more than once in total.
C1_SetContract ==
    last.op = "set" =>
        /\ last.arg = last.val =>
                /\ cells[Cell].value = last.val
                /\ calls = <<>>
        /\ last.arg # last.val =>
                /\ cells[Cell].value = last.arg
                /\ Len(calls) = Len(last.obs)
                /\ \A i \in 1..Len(calls) : calls[i].v = last.arg
                /\ \A l \in ObsListeners :
                        Called(calls, l.id) = Occurs(last.obs, l.id)
        /\ (last.p.op = "set" /\ last.p.arg = last.arg) =>
                \A l \in ObsListeners :
                    Called(last.calls0 \o calls, l.id) <= Occurs(last.obs, l.id)

\* A changing set(v) that is repeated, with two listeners registered.
C1_Witness ==
    /\ last.op = "set" /\ last.p.op = "set" /\ last.p.arg = last.arg
    /\ Len(last.calls0) >= 2
    /\ calls = <<>>

\* C2: a set that changes the value has invoked the listeners in registration
\* order (observe appends, set walks the list front to back) by the time it
\* returns; observe invokes nothing and does not touch the value.
C2_OrderAndNoReplay ==
    /\ (last.op = "set" /\ last.arg # last.val) =>
            calls = CallsOf(last.obs, last.arg)
    /\ last.op = "observe" =>
            /\ calls = <<>>
            /\ cells[Cell].value = last.val
            /\ cells[Cell].obs = last.obs \o <<last.arg>>

\* A set right after an observe, invoking two different listeners, the one
\* registered last being called last.
C2_Witness ==
    /\ last.op = "set" /\ last.p.op = "observe"
    /\ Len(calls) >= 2
    /\ calls[Len(calls)].l = last.p.arg
    /\ calls[1].l # calls[2].l

\* C3: remove_observer(x) removes every listener that is x or is bound to x,
\* keeps the others in their order, and a following set invokes none of the
\* removed ones.
C3_RemoveObserver ==
    /\ last.op = "remove" =>
            cells[Cell].obs =
                SelectSeq(last.obs, LAMBDA l : l.id # last.arg /\ l.self # last.arg)
    /\ (last.op = "set" /\ last.p.op = "remove") =>
            \A i \in 1..Len(calls) :
                calls[i].l.id # last.p.arg /\ calls[i].l.self # last.p.arg

\* A removal by owner that deleted two adjacent entries and kept another,
\* followed by a set that still invoked the survivor.
C3_Witness ==
    /\ last.op = "set" /\ last.p.op = "remove" /\ last.p.arg = "X"
    /\ Len(last.p.obs) = 3 /\ Len(last.obs) = 1
    /\ last.p.obs[1].self = "X" /\ last.p.obs[2].self = "X"
    /\ Len(calls) = 1

(***************************************************************************)
(* Top-level calls of the client code, shared by the scenarios below       *)
(***************************************************************************)
Empty == [cells |-> <<>>, attr |-> <<>>, views |-> <<>>, panes |-> <<>>,
          err |-> FALSE, calls |-> <<>>, upd |-> {}, ret |-> FALSE]

\* Sizes and boxes the client code uses.
Dims == {None} \cup {Some(n * Grain) : n \in 0..MaxDim}
ContentDims == {None, Some(Grain)}
\* A pane is built at the origin and later moved and resized by its owner.
InitBox == <<0, 0, MaxSpan * Grain, MaxSpan * Grain>>
Boxes == {<<Grain, 2 * Grain, Grain + w * Grain, 2 * Grain + h * Grain>> :
            w \in 0..MaxSpan, h \in 0..MaxSpan}
Aligns == {1, 2, 3, 4}

\* The current value of obj.name
Val(obj, name) == cells[attr[obj][name]].value

\* The program state is heap s and nothing has been called yet.
Starts(s) ==
    /\ cells = s.cells
    /\ attr = s.attr
    /\ views = s.views
    /\ panes = s.panes
    /\ err = s.err
    /\ calls = <<>>
    /\ upd = {}
    /\ last = NoCall

\* obj.name = x  (Attribute.__set__)
Assign(obj, name, x) ==
    /\ ~err
    /\ Commit(SetAttr(Heap, obj, name, x))
    /\ UNCHANGED last

\* view.min_width = x
SetMinWidth(v, x) == Assign(v, "min_width_", x) /\ shown' = <<>>

\* view.min_height = x
SetMinHeight(v, x) == Assign(v, "min_height_", x) /\ shown' = <<>>

\* view.content_width = x  (done by the view's own class)
SetContentWidth(v, x) == Assign(v, "content_width_", x) /\ shown' = <<>>

\* view.content_height = x
SetContentHeight(v, x) == Assign(v, "content_height_", x) /\ shown' = <<>>

\* view.hidden = b
SetHidden(v, b) ==
    /\ Assign(v, "hidden_", b)
    /\ shown' = IF b /\ ~Val(v, "hidden_")
                THEN <<v, Val(v, "derived_width_"), Val(v, "derived_height_")>>
                ELSE IF ~b /\ shown # <<>> /\ shown[1] = v THEN shown
                ELSE <<>>

\* view.halign = a
SetHAlign(v, a) == Assign(v, "halign_", a) /\ UNCHANGED shown

\* view.valign = a
SetVAlign(v, a) == Assign(v, "valign_", a) /\ UNCHANGED shown

\* pane.alloc_coords = box  (the owner of the pane resizes it)
SetAllocCoords(p, box) == Assign(p, "alloc_coords_", box) /\ UNCHANGED shown

(***************************************************************************)
(* Scenario: one view and one pane (vui/test_view.py)                      *)
(***************************************************************************)
\* width_ = Observable(w0); view = View(min_width=width_); pane = Pane(...)
ExtW == <<"width_", "value">>

ViewScene(w0) ==
    LET s0 == [Empty EXCEPT !.cells = (ExtW :> NewObservable(w0))]
        s1 == NewView(s0, "V", "View", <<>>, ViewDefaults, ("min_width" :> ExtW))
    IN NewPane(s1, "P", InitBox)

InitView == \E w0 \in Dims : Starts(ViewScene(w0)) /\ shown = <<>>

\* view.attach(pane)
AttachView ==
    /\ ~err
    /\ views["V"].pane = NoPane
    /\ Commit(Attach(Heap, "V", "P"))
    /\ UNCHANGED <<last, shown>>

\* width_.set(x): the Observable the view was given as min_width
SetExternalWidth(x) ==
    /\ ~err
    /\ Commit(Set(Heap, ExtW, x))
    /\ shown' = <<>>
    /\ UNCHANGED last

NextView ==
    \/ AttachView
    \/ \E x \in Dims : SetExternalWidth(x)
    \/ \E x \in Dims : SetMinWidth("V", x)
    \/ \E x \in Dims : SetMinHeight("V", x)
    \/ \E x \in ContentDims : SetContentWidth("V", x)
    \/ \E x \in ContentDims : SetContentHeight("V", x)
    \/ \E b \in BOOLEAN : SetHidden("V", b)
    \/ \E a \in Aligns : SetHAlign("V", a)
    \/ \E a \in Aligns : SetVAlign("V", a)
    \/ \E box \in Boxes : SetAllocCoords("P", box)

SpecView == InitView /\ [][NextView]_vars

(***************************************************************************)
(* Claims about a view's sizing and alignment                              *)
(***************************************************************************)
\* The sizing priority, as the documentation of View states it.
Resolved(hidden, min, content) ==
    IF hidden THEN 0
    ELSE IF min # None THEN min[1]
    ELSE IF content # None THEN content[1]
    ELSE 0

\* C4: after every assignment that returned, each view's derived_width is 0
\* if hidden, else min_width if set, else content_width if set, else 0, and
\* the same for the height; revealing a view that was hidden, with no sizing
\* input changed in between, gives back the derived sizes it had before.
C4_SizingPriority ==
    ~err =>
        /\ \A v \in DOMAIN views :
            /\ Val(v, "derived_width_") =
                  Resolved(Val(v, "hidden_"), Val(v, "min_width_"),
                           Val(v, "content_width_"))
            /\ Val(v, "derived_height_") =
                  Resolved(Val(v, "hidden_"), Val(v, "min_height_"),
                           Val(v, "content_height_"))
            /\ Val(v, "hidden_") =>
                  Val(v, "derived_width_") = 0 /\ Val(v, "derived_height_") = 0
        /\ (shown # <<>> /\ ~Val(shown[1], "hidden_")) =>
              /\ Val(shown[1], "derived_width_") = shown[2]
              /\ Val(shown[1], "derived_height_") = shown[3]

\* A view revealed again after having been hidden with min_width and
\* content_width both set and different, and a content height only.
C4_Witness ==
    /\ shown # <<>> /\ ~Val("V", "hidden_")
    /\ Val("V", "min_width_") # None /\ Val("V", "content_width_") # None
    /\ Val("V", "min_width_") # Val("V", "content_width_")
    /\ Val("V", "min_height_") = None /\ Val("V", "content_height_") # None
    /\ shown[2] = Val("V", "min_width_")[1] /\ shown[3] > 0

\* The box _update_pane is to produce for view v on pane p.
Aligned(v, p) ==
    LET a == Val(p, "alloc_coords_")
        x == CalcCoords(a[1], a[3], Val(v, "derived_width_"), Val(v, "halign_"))
        y == CalcCoords(a[2], a[4], Val(v, "derived_height_"), Val(v, "valign_"))
    IN <<x[1], y[1], x[2], y[2]>>

\* Box b has its edges within box a, and is not inverted unless a is.
Inside(b, a) ==
    /\ a[1] <= b[1] /\ b[3] <= a[3] /\ (a[1] <= a[3] => b[1] <= b[3])
    /\ a[2] <= b[2] /\ b[4] <= a[4] /\ (a[2] <= a[4] => b[2] <= b[4])

\* C6: once a call has returned, the active box of the pane of every
\* attached view is the per-axis alignment of the current derived sizes in
\* the current allocated box, and lies inside the allocated box.
C6_ActiveBoxAligned ==
    ~err =>
        \A v \in DOMAIN views :
            views[v].pane # NoPane =>
                /\ Val(views[v].pane, "coords_") = Aligned(v, views[v].pane)
                /\ Inside(Val(views[v].pane, "coords_"),
                          Val(views[v].pane, "alloc_coords_"))

\* An attached view centred on one axis and end-aligned on the other, with
\* room to spare on both, in a box that does not start at the origin.
C6_Witness ==
    /\ views["V"].pane = "P"
    /\ Val("V", "halign_") = CENTER /\ Val("V", "valign_") = TOP
    /\ Val("V", "derived_width_") > 0 /\ Val("V", "derived_height_") > 0
    /\ Val("P", "alloc_coords_")[1] > 0
    /\ Val("P", "coords_")[1] > Val("P", "alloc_coords_")[1]
    /\ Val("P", "coords_")[3] < Val("P", "alloc_coords_")[3]
    /\ Val("P", "coords_")[2] > Val("P", "alloc_coords_")[2]

(***************************************************************************)
(* Scenario: _calc_coords on its own                                       *)
(***************************************************************************)
\* Arguments with lo < hi and dim >= 0, all even so that extra / 2 is exact;
\* align is the value of an alignment, or of an enum member that is none
\* (0 and 5).
CalcArgs ==
    {[lo |-> 2 * l, hi |-> 2 * (l + w), dim |-> 2 * d, align |-> a] :
        l \in 0..MaxSpan, w \in 1..(MaxSpan + 1), d \in 0..(MaxSpan + 2),
        a \in Aligns \cup {0, 5}}

InitCalc ==
    /\ Starts(Empty)
    /\ \E args \in CalcArgs : shown = [op |-> "args", args |-> args]

\* _calc_coords(lo, hi, dim, align)
CalcCall ==
    /\ shown.op = "args"
    /\ shown' = [op |-> "_calc_coords", args |-> shown.args,
                 res |-> CalcCoords(shown.args.lo, shown.args.hi,
                                    shown.args.dim, shown.args.align)]
    /\ UNCHANGED <<cells, attr, views, panes, err, calls, upd, last>>

NextCalc == CalcCall

SpecCalc == InitCalc /\ [][NextCalc]_vars

\* C5: for START, CENTER, END and dim <= hi - lo the interval returned has
\* length dim and lies in [lo, hi], START at lo, END at hi, CENTER with equal
\* margins; for FILL or dim > hi - lo it is (lo, hi).
C5_CalcAxis ==
    shown.op = "_calc_coords" =>
        LET lo == shown.args.lo
            hi == shown.args.hi
            dim == shown.args.dim
            al == shown.args.align
            r == shown.res
        IN /\ (al \in {LEFT, CENTER, RIGHT} /\ dim <= hi - lo) =>
                /\ Len(r) = 2
                /\ r[2] - r[1] = dim
                /\ lo <= r[1] /\ r[1] <= r[2] /\ r[2] <= hi
                /\ al = LEFT => r[1] = lo
                /\ al = RIGHT => r[2] = hi
                /\ al = CENTER => r[1] - lo = hi - r[2]
           /\ (al = FILL \/ dim > hi - lo) => r = <<lo, hi>>

\* A centred result with a positive size and positive margins.
C5_Witness ==
    /\ shown.op = "_calc_coords"
    /\ shown.args.align = CENTER
    /\ shown.args.dim > 0
    /\ shown.res[1] > shown.args.lo
    /\ shown.res[2] < shown.args.hi

\* C28: _calc_coords with an alignment value that is none of the four raises
\* the ValueError, whatever the span and the size.
C28_BadAlignRaises ==
    (shown.op = "_calc_coords" /\ shown.args.align \notin Aligns) =>
        shown.res = <<>>

(***************************************************************************)
(* Scenario: a stack of two views (vui/test_layout.py)                     *)
(***************************************************************************)
\* A = View(flex fa, centred), B = View(flex fb, valign TOP), both with
\* minimal sizes; S = HStackLayout(A, B) or VStackLayout(A, B); P = Pane(...)
StackScene(kind, fa, fb) ==
    LET s1 == NewView(Empty, "A", "View", <<>>,
                 [ViewDefaults EXCEPT
                     !.min_width = Some(2 * Grain), !.min_height = Some(Grain),
                     !.flex_width = fa, !.flex_height = fa,
                     !.halign = CENTER, !.valign = CENTER], <<>>)
        s2 == NewView(s1, "B", "View", <<>>,
                 [ViewDefaults EXCEPT
                     !.min_width = Some(Grain), !.min_height = Some(2 * Grain),
                     !.flex_width = fb, !.flex_height = fb,
                     !.valign = TOP], <<>>)
        s3 == NewStack(s2, "S", kind, <<"A", "B">>, ViewDefaults, <<>>)
    IN NewPane(s3, "P", InitBox)

InitStack ==
    /\ \E kind \in {"HStackLayout", "VStackLayout"}, fa \in BOOLEAN, fb \in BOOLEAN :
          Starts(StackScene(kind, fa, fb))
    /\ shown = <<>>

Horizontal == views["S"].kind = "HStackLayout"

\* Sizes of the children along the stack, and spans the stack is given.
StackDims == {None, Some((MaxDim + 1) * Grain)}
StackSpans == {1, MaxSpan + 2}
StackBoxes ==
    {IF Horizontal
     THEN <<Grain, 2 * Grain, Grain + w * Grain, 5 * Grain>>
     ELSE <<2 * Grain, Grain, 5 * Grain, Grain + w * Grain>> :
        w \in StackSpans}

\* stack.attach(pane)
AttachStack ==
    /\ ~err
    /\ views["S"].pane = NoPane
    /\ Commit(Attach(Heap, "S", "P"))
    /\ UNCHANGED <<last, shown>>

\* child.min_width = x in a horizontal, child.min_height = x in a vertical stack
SetChildMin(ch, x) ==
    \/ Horizontal /\ SetMinWidth(ch, x)
    \/ ~Horizontal /\ SetMinHeight(ch, x)

\* child.hidden = b
SetChildHidden(v, b) == Assign(v, "hidden_", b) /\ UNCHANGED shown

\* stack.min_width = x, stack.min_height = x
SetStackMin(x) ==
    \/ Horizontal /\ SetMinWidth("S", x)
    \/ ~Horizontal /\ SetMinHeight("S", x)

NextStack ==
    \/ AttachStack
    \/ \E ch \in {"A", "B"}, x \in StackDims : SetChildMin(ch, x)
    \/ \E v \in {"A", "B"}, b \in BOOLEAN : SetChildHidden(v, b)
    \/ \E x \in {None, Some(Grain)} : SetStackMin(x)
    \/ \E box \in StackBoxes : SetAllocCoords("P", box)

SpecStack == InitStack /\ [][NextStack]_vars

(***************************************************************************)
(* Claims about the partition of a stack                                   *)
(***************************************************************************)
Kids == views["S"].children
PaneOf(v) == views[v].pane
Shown(i) == ~Val(Kids[i], "hidden_")
Along(v) ==
    IF Horizontal THEN Val(v, "derived_width_") ELSE Val(v, "derived_height_")
FlexAlong(v) ==
    IF Horizontal THEN Val(v, "flex_width_") ELSE Val(v, "flex_height_")

\* What the visible children before child i, and all of them, ask for.
Need(i) == IF Shown(i) THEN Along(Kids[i]) ELSE 0
NeedBefore(i) == SumSeq([j \in 1..(i - 1) |-> Need(j)])
TotalNeed == NeedBefore(Len(Kids) + 1)

\* The stack pane's box, and its extent along the stack.
StackBox == Val("P", "coords_")
Span ==
    IF Horizontal THEN StackBox[3] - StackBox[1] ELSE StackBox[4] - StackBox[2]

\* The last call ran the partition of the attached stack and returned.
Partitioned == ~err /\ views["S"].pane = "P" /\ "S" \in upd

FlexKids == {i \in 1..Len(Kids) : Shown(i) /\ FlexAlong(Kids[i])}
Share == TrueDiv(Span - TotalNeed, Max(Cardinality(FlexKids), 1))
Granted(i) ==
    IF ~Shown(i) THEN 0
    ELSE Along(Kids[i]) + (IF i \in FlexKids THEN Share ELSE 0)
GrantedBefore(i) == SumSeq([j \in 1..(i - 1) |-> Granted(j)])

\* C7: after a partition pass of an attached, visible horizontal stack
\* without min_width whose span is at least the sum of the visible
\* children's derived widths, every visible child's allocated box starts
\* where the previous visible one ends (the first at the left edge), is
\* derived_width wide plus, for a flex child, an equal share of the spare
\* width, and spans the stack box vertically.
C7_HPartition ==
    (/\ Partitioned /\ Horizontal
     /\ ~Val("S", "hidden_") /\ Val("S", "min_width_") = None
     /\ Span >= TotalNeed) =>
        \A i \in 1..Len(Kids) :
            Shown(i) =>
                LET x == StackBox[1] + GrantedBefore(i)
                IN Val(PaneOf(Kids[i]), "alloc_coords_") =
                       <<x, StackBox[2], x + Granted(i), StackBox[4]>>

\* A (2 wide, flex) and B (1 wide, fixed) on a span of 4, away from the
\* origin: A gets the spare 1.
C7_Witness ==
    /\ Partitioned /\ Horizontal
    /\ ~Val("S", "hidden_") /\ Val("S", "min_width_") = None
    /\ Shown(1) /\ Shown(2)
    /\ Val("A", "flex_width_") /\ ~Val("B", "flex_width_")
    /\ Val("A", "derived_width_") = 2 * Grain
    /\ Val("B", "derived_width_") = Grain
    /\ StackBox = <<Grain, 2 * Grain, 5 * Grain, 5 * Grain>>
    /\ Val("pA", "alloc_coords_") = <<Grain, 2 * Grain, 4 * Grain, 5 * Grain>>
    /\ Val("pB", "alloc_coords_") = <<4 * Grain, 2 * Grain, 5 * Grain, 5 * Grain>>

\* The extent of a box along the stack, measured from the start edge of the
\* stack box (the left edge, or the top edge downward).
AlongBox(b) ==
    IF Horizontal THEN <<b[1] - StackBox[1], b[3] - StackBox[1]>>
    ELSE <<StackBox[4] - b[4], StackBox[4] - b[2]>>

\* C8: after a partition pass of an attached stack whose span is smaller
\* than the sum of the visible children's derived sizes, every visible
\* child starts where the previous visible ones end and extends by
\* min(derived size, space left up to the span end).
C8_OverflowClamp ==
    (Partitioned /\ Span < TotalNeed) =>
        \A i \in 1..Len(Kids) :
            Shown(i) =>
                LET from == Min(NeedBefore(i), Span)
                IN AlongBox(Val(PaneOf(Kids[i]), "alloc_coords_")) =
                       <<from, from + Min(Need(i), Span - from)>>

\* The heap with the two axes exchanged: a vertical stack read as a
\* horizontal one, its top edge as the left edge (x = -y, y = x).
Turn(b) == <<-b[4], b[1], -b[2], b[3]>>
TurnAlign(a) == IF a = TOP THEN LEFT ELSE IF a = BOTTOM THEN RIGHT ELSE a
TurnAttr(a) ==
    [a EXCEPT !.min_width_ = a.min_height_, !.min_height_ = a.min_width_,
              !.content_width_ = a.content_height_,
              !.content_height_ = a.content_width_,
              !.derived_width_ = a.derived_height_,
              !.derived_height_ = a.derived_width_,
              !.flex_width_ = a.flex_height_, !.flex_height_ = a.flex_width_,
              !.halign_ = a.valign_, !.valign_ = a.halign_]
Turned ==
    LET boxes == {attr[p][n] : p \in DOMAIN panes, n \in {"coords_", "alloc_coords_"}}
        aligns == {attr[v].valign_ : v \in DOMAIN views}
    IN [Heap EXCEPT
          !.attr = [o \in DOMAIN attr |->
                      IF o \in DOMAIN views THEN TurnAttr(attr[o]) ELSE attr[o]],
          !.views = [v \in DOMAIN views |->
                      IF views[v].kind = "VStackLayout"
                      THEN [views[v] EXCEPT !.kind = "HStackLayout"]
                      ELSE views[v]],
          !.cells = [r \in DOMAIN cells |->
                      IF r \in boxes
                      THEN [cells[r] EXCEPT !.value = Turn(@)]
                      ELSE IF r \in aligns
                      THEN [cells[r] EXCEPT !.value = TurnAlign(@)]
                      ELSE cells[r]]]

\* The visible children before child i, last first.
ShownBefore(i) == {j \in 1..(i - 1) : Shown(j)}
Previous(i) == CHOOSE j \in ShownBefore(i) : \A k \in ShownBefore(i) : k <= j

\* C9: after a partition pass of an attached vertical stack, the first
\* visible child's allocated box ends at the top of the stack box, every
\* later visible child's ends where the previous visible one's starts, each
\* spans the stack box horizontally, and the boxes are those the horizontal
\* partition gives on the same stack with the axes exchanged.
C9_VPartition ==
    (Partitioned /\ ~Horizontal) =>
        \A i \in 1..Len(Kids) :
            Shown(i) =>
                LET b == Val(PaneOf(Kids[i]), "alloc_coords_")
                IN /\ b[1] = StackBox[1] /\ b[3] = StackBox[3]
                   /\ b[4] = IF ShownBefore(i) = {} THEN StackBox[4]
                             ELSE Val(PaneOf(Kids[Previous(i)]), "alloc_coords_")[2]
                   /\ Turn(b) = Get(Update(Turned, "S"), PaneOf(Kids[i]),
                                    "alloc_coords_")

\* Children 1 high (flex) and 2 high (fixed) on a span of 4, away from the
\* origin: the first is on top and gets the spare 1.
C9_Witness ==
    /\ Partitioned /\ ~Horizontal
    /\ Shown(1) /\ Shown(2)
    /\ Val("A", "flex_height_") /\ ~Val("B", "flex_height_")
    /\ Val("A", "derived_height_") = Grain
    /\ Val("B", "derived_height_") = 2 * Grain
    /\ StackBox = <<2 * Grain, Grain, 5 * Grain, 5 * Grain>>
    /\ Val("pA", "alloc_coords_") = <<2 * Grain, 3 * Grain, 5 * Grain, 5 * Grain>>
    /\ Val("pB", "alloc_coords_") = <<2 * Grain, Grain, 5 * Grain, 3 * Grain>>

\* The length of the allocated box of child i along the stack.
Length(i) ==
    LET b == AlongBox(Val(PaneOf(Kids[i]), "alloc_coords_")) IN b[2] - b[1]

\* C29: after a partition pass of an attached stack, with or without a
\* min size of its own, every visible flex child has its derived size plus
\* an equal share of max(0, span - sum of the visible children's derived
\* sizes): the share of the spare space when the children fit, and nothing
\* beyond its derived size when they do not.
C29_ExtraSpace ==
    Partitioned =>
        \A i \in FlexKids :
            IF Span >= TotalNeed THEN Length(i) = Need(i) + Share
            ELSE Length(i) <= Need(i)

\* C30: in every state of an attached stack every visible child's allocated
\* box lies inside the stack pane's box along the stack and is not inverted.
C30_ChildInside ==
    (~err /\ views["S"].pane = "P") =>
        \A i \in 1..Len(Kids) :
            Shown(i) =>
                LET b == AlongBox(Val(PaneOf(Kids[i]), "alloc_coords_"))
                IN 0 <= b[1] /\ b[1] <= b[2] /\ b[2] <= Span

(***************************************************************************)
(* Scenario: a layered layout over a view and a stack                      *)
(***************************************************************************)
\* A = View(min_height=1); B = View(min_width=2, min_height=1);
\* C = View(min_width=1, min_height=2);
\* S = HStackLayout(B, C) or VStackLayout(B, C); L = LayersLayout(A, S);
\* P = Pane(...)
TreeLeaves ==
    LET s1 == NewView(Empty, "A", "View", <<>>,
                 [ViewDefaults EXCEPT !.min_height = Some(Grain)], <<>>)
        s2 == NewView(s1, "B", "View", <<>>,
                 [ViewDefaults EXCEPT !.min_width = Some((MaxDim + 1) * Grain),
                                      !.min_height = Some(Grain)], <<>>)
    IN NewView(s2, "C", "View", <<>>,
               [ViewDefaults EXCEPT !.min_width = Some(Grain),
                                    !.min_height = Some((MaxDim + 1) * Grain)],
               <<>>)

TreeStack(kind) == NewStack(TreeLeaves, "S", kind, <<"B", "C">>, ViewDefaults, <<>>)

TreeScene(kind) ==
    NewPane(NewLayers(TreeStack(kind), "L", <<"A", "S">>, ViewDefaults, <<>>),
            "P", InitBox)

InitTree ==
    /\ \E kind \in {"HStackLayout", "VStackLayout"} : Starts(TreeScene(kind))
    /\ shown = <<>>

\* layers.attach(pane)
AttachTree ==
    /\ ~err
    /\ views["L"].pane = NoPane
    /\ Commit(Attach(Heap, "L", "P"))
    /\ UNCHANGED <<last, shown>>

NextTree ==
    \/ AttachTree
    \/ \E x \in StackDims : SetMinWidth("B", x)
    \/ \E x \in StackDims : SetMinHeight("C", x)
    \/ \E x \in ContentDims : SetContentWidth("A", x)
    \/ \E x \in ContentDims : SetMinWidth("S", x)
    \/ \E v \in {"A", "B", "C", "S"}, b \in BOOLEAN : SetChildHidden(v, b)

SpecTree == InitTree /\ [][NextTree]_vars

(***************************************************************************)
(* Claims about the sizes of layouts                                       *)
(***************************************************************************)
\* The derived sizes the sizing priority gives the children of layout v.
WantWidths(v) ==
    [i \in 1..Len(views[v].children) |->
        LET ch == views[v].children[i]
        IN Resolved(Val(ch, "hidden_"), Val(ch, "min_width_"),
                    Val(ch, "content_width_"))]
WantHeights(v) ==
    [i \in 1..Len(views[v].children) |->
        LET ch == views[v].children[i]
        IN Resolved(Val(ch, "hidden_"), Val(ch, "min_height_"),
                    Val(ch, "content_height_"))]

\* C10: in every state, the content width of a horizontal stack is the sum
\* of what the sizing priority gives its children (0 for a hidden child),
\* that of a vertical stack or a layered layout their maximum, likewise for
\* the height with the stacks exchanged, and every view's and layout's
\* derived size is what the sizing priority gives it.
C10_SizingBottomUp ==
    /\ \A v \in DOMAIN views :
          views[v].children # <<>> =>
             /\ Val(v, "content_width_") =
                   Some(IF views[v].kind = "HStackLayout"
                        THEN SumSeq(WantWidths(v)) ELSE MaxSeq(WantWidths(v)))
             /\ Val(v, "content_height_") =
                   Some(IF views[v].kind = "VStackLayout"
                        THEN SumSeq(WantHeights(v)) ELSE MaxSeq(WantHeights(v)))
    /\ \A v \in DOMAIN views :
          /\ Val(v, "derived_width_") =
                Resolved(Val(v, "hidden_"), Val(v, "min_width_"),
                         Val(v, "content_width_"))
          /\ Val(v, "derived_height_") =
                Resolved(Val(v, "hidden_"), Val(v, "min_height_"),
                         Val(v, "content_height_"))

(***************************************************************************)
(* Scenario: a stack of a view and a spacer                                *)
(***************************************************************************)
\* A = View(min_width=2, min_height=1); B = Spacer();
\* S = HStackLayout(A, B) or VStackLayout(A, B); P = Pane(...)
ReflowScene(kind) ==
    LET s1 == NewView(Empty, "A", "View", <<>>,
                 [ViewDefaults EXCEPT !.min_width = Some(2 * Grain),
                                      !.min_height = Some(Grain)], <<>>)
        s2 == NewView(s1, "B", "View", <<>>, ViewDefaults, <<>>)
        s3 == NewStack(s2, "S", kind, <<"A", "B">>, ViewDefaults, <<>>)
    IN NewPane(s3, "P", InitBox)

InitReflow ==
    /\ \E kind \in {"HStackLayout", "VStackLayout"} : Starts(ReflowScene(kind))
    /\ shown = <<>>

\* stack.attach(pane)
AttachReflow ==
    /\ ~err
    /\ views["S"].pane = NoPane
    /\ Commit(Attach(Heap, "S", "P"))
    /\ last' = [op |-> "attach", arg |-> "S"]
    /\ UNCHANGED shown

\* child.hidden = not child.hidden
ToggleHidden(v) ==
    /\ ~err
    /\ Commit(SetAttr(Heap, v, "hidden_", ~Val(v, "hidden_")))
    /\ last' = [op |-> "hidden", arg |-> v]
    /\ UNCHANGED shown

\* child.flex_width = not child.flex_width in a horizontal stack,
\* child.flex_height = not child.flex_height in a vertical one
ToggleFlex(v) ==
    /\ ~err
    /\ \/ Horizontal /\ Commit(SetAttr(Heap, v, "flex_width_", ~Val(v, "flex_width_")))
       \/ ~Horizontal /\ Commit(SetAttr(Heap, v, "flex_height_", ~Val(v, "flex_height_")))
    /\ last' = [op |-> "flex", arg |-> v]
    /\ UNCHANGED shown

\* pane.alloc_coords = box (the history keeps what every view asked for
\* before the call)
ResizeStack(box) ==
    /\ ~err
    /\ Commit(SetAttr(Heap, "P", "alloc_coords_", box))
    /\ last' = [op |-> "resize", arg |-> "P",
                was |-> [v \in DOMAIN views \cap DOMAIN attr |->
                            [n \in DOMAIN attr[v] |-> Val(v, n)]]]
    /\ UNCHANGED shown

NextReflow ==
    \/ AttachReflow
    \/ \E v \in {"A", "B"} : ToggleHidden(v)
    \/ \E v \in {"A", "B"} : ToggleFlex(v)
    \/ \E box \in StackBoxes : ResizeStack(box)

SpecReflow == InitReflow /\ [][NextReflow]_vars

(***************************************************************************)
(* Claims about when a stack is partitioned again                          *)
(***************************************************************************)
\* Every visible child's allocated box is the one a partition pass run now
\* on the current state gives it.
Fresh ==
    \A i \in 1..Len(Kids) :
        Shown(i) =>
            Val(PaneOf(Kids[i]), "alloc_coords_") =
                Get(Update(Heap, "S"), PaneOf(Kids[i]), "alloc_coords_")

\* C11: when the hidden flag of a child of an attached stack has been
\* toggled and the assignment has returned, every visible child's allocated
\* box equals the partition run from scratch on the new state.
C11_VisibilityReflow ==
    (last.op = "hidden" /\ views["S"].pane = "P" /\ ~err) => Fresh

\* C12: when the flex flag on the stacking axis of a visible child of an
\* attached stack has been toggled, every visible child's allocated box
\* equals the partition computed from the new flags.
C12_FlexReflow ==
    (/\ last.op = "flex" /\ views["S"].pane = "P" /\ ~err
     /\ ~Val(last.arg, "hidden_")) => Fresh

(***************************************************************************)
(* Scenario: draw and pointer events on a view, a stack and a layers       *)
(* layout (test_view.py test_hidden, test_layout.py test_draw,             *)
(* test_mouse_press, LayersLayoutTest)                                     *)
(***************************************************************************)
\* S = FakeView(...) alone, or S = kind(A, B) with A filling its slot and B
\* centred in its slot; la is the alignment of S on both axes. P is the pane
\* the tree is attached to.
EventScene(kind, la) ==
    LET s1 == NewView(Empty, "A", "FakeView", <<>>,
                 [ViewDefaults EXCEPT !.min_width = Some(2 * Grain),
                                      !.min_height = Some(2 * Grain)], <<>>)
        s2 == NewView(s1, "B", "FakeView", <<>>,
                 [ViewDefaults EXCEPT
                     !.min_width = Some(Grain), !.min_height = Some(Grain),
                     !.flex_width = FALSE, !.flex_height = FALSE,
                     !.halign = CENTER, !.valign = CENTER], <<>>)
        lit == [ViewDefaults EXCEPT !.halign = la, !.valign = la]
        s3 == CASE kind = "FakeView" ->
                     NewView(Empty, "S", kind, <<>>,
                         [lit EXCEPT !.min_width = Some(Grain),
                                     !.min_height = Some(Grain),
                                     !.background_color = Some(1)], <<>>)
                [] kind = "LayersLayout" -> NewLayers(s2, "S", <<"A", "B">>, lit, <<>>)
                [] OTHER -> NewStack(s2, "S", kind, <<"A", "B">>, lit, <<>>)
    IN NewPane(s3, "P",
               <<0, 0, (MaxSpan + 1) * Grain, (MaxSpan + 1) * Grain>>)

InitEvents ==
    /\ \E kind \in {"FakeView", "HStackLayout", "VStackLayout", "LayersLayout"},
          la \in {LEFT, FILL} :
          /\ kind \in {"HStackLayout", "VStackLayout"} => la = FILL
          /\ Starts(EventScene(kind, la))
    /\ shown = <<>>

\* Pointer positions the host window reports.
Points ==
    LET h == Grain \div 2
    IN {<<h, h>>, <<3 * h, h>>, <<5 * h, h>>, <<5 * h, 3 * h>>,
        <<2 * Grain, Grain>>}

\* pane.mouse_pos = pos
MovePointer(pos) ==
    /\ ~err
    /\ \E v \in DOMAIN views : views[v].pane # NoPane
    /\ Commit(SetAttr(Heap, "P", "mouse_pos_", pos))
    /\ last' = [op |-> "mouse_pos", arg |-> pos]
    /\ UNCHANGED shown

\* pane.dispatch_event(ev, *a) on pane P once the tree has been attached. The history
\* keeps the drag capture the stack had before the call, and the child that
\* was under the pointer at the first press, with the button, until a
\* release of a button that has a bit in common with it.
Event(ev, a) ==
    /\ ~err
    /\ \E v \in DOMAIN views : views[v].pane # NoPane
    /\ Commit(Dispatch(Heap, "P", ev, a))
    /\ last' = [op |-> ev, arg |-> a,
                was |-> IF "dragging" \in DOMAIN views["S"]
                        THEN <<views["S"].dragging, views["S"].dragbtn>>
                        ELSE <<>>]
    /\ shown' =
          IF /\ ev = "on_mouse_press" /\ shown = <<>>
             /\ ScanChildren(Heap, "S", 1, a) # NoPane
          THEN <<ScanChildren(Heap, "S", 1, a), a[3]>>
          ELSE IF /\ ev = "on_mouse_release" /\ shown # <<>>
                  /\ BitAnd(a[3], shown[2]) # 0
          THEN <<>>
          ELSE shown

NextPointer ==
    \/ AttachReflow
    \/ \E pos \in Points \cup {None} : MovePointer(pos)
    \/ \E pt \in Points, b \in {1, 2} :
          \/ Event("on_mouse_press", <<pt[1], pt[2], b>>)
          \/ Event("on_mouse_release", <<pt[1], pt[2], b>>)
    \/ \E pt \in Points : Event("on_mouse_scroll", <<pt[1], pt[2], 1>>)
    \/ \E pt \in Points, m \in {1, 3} : Event("on_mouse_drag", <<pt[1], pt[2], m>>)

SpecPointer == InitEvents /\ [][NextPointer]_vars

\* The same trees drawn, with views hidden and revealed and the pane resized.
NextDraw ==
    \/ AttachReflow
    \/ \E v \in DOMAIN views : ToggleHidden(v)
    \/ \E w \in {MaxSpan, MaxSpan + 1} :
          ResizeStack(<<0, 0, w * Grain, (MaxSpan + 1) * Grain>>)
    \/ Event("on_draw", <<>>)

SpecDraw == InitEvents /\ [][NextDraw]_vars

(***************************************************************************)
(* Claims about pointer routing in a stack                                 *)
(***************************************************************************)
\* S is a stack attached to the pane and the last call returned.
StackAttached ==
    /\ views["S"].kind \in {"HStackLayout", "VStackLayout"}
    /\ views["S"].pane = "P"
    /\ ~err

\* The children whose active box contains the point (half-open test).
Over(pt) ==
    {v \in {Kids[i] : i \in 1..Len(Kids)} :
        LET c == Val(PaneOf(v), "coords_")
        IN c[1] <= pt[1] /\ pt[1] < c[3] /\ c[2] <= pt[2] /\ pt[2] < c[4]}

\* The handler calls of the last dispatch that were made for event ev.
Got(ev) == SelectSeq(calls, LAMBDA c : c.l.fn = ev)

\* C13: a press, release or scroll dispatched to an attached stack's pane
\* calls the handler of exactly one child, one whose active box contains the
\* point, with the event's arguments, and calls no handler at all when no
\* child's active box contains the point.
C13_HitTest ==
    (StackAttached /\ last.op \in {"on_mouse_press", "on_mouse_release",
                                   "on_mouse_scroll"}) =>
        /\ calls = Got(last.op)
        /\ IF Over(last.arg) = {} THEN calls = <<>>
           ELSE /\ Len(calls) = 1
                /\ calls[1].l.self \in Over(last.arg)
                /\ calls[1].v = last.arg

\* A release at a point inside a child's allocated box but outside its
\* active box has been dispatched and reached no child.
C13_Witness ==
    /\ StackAttached
    /\ last.op = "on_mouse_release"
    /\ calls = <<>>
    /\ \E i \in 1..Len(Kids) :
          LET a == Val(PaneOf(Kids[i]), "alloc_coords_")
          IN /\ a[1] <= last.arg[1] /\ last.arg[1] < a[3]
             /\ a[2] <= last.arg[2] /\ last.arg[2] < a[4]

\* The two button masks have a bit in common.
Common(a, b) == \E k \in {1, 2} : (a \div k) % 2 = 1 /\ (b \div k) % 2 = 1

\* The view attached to pane p.
OwnerOf(p) == CHOOSE v \in DOMAIN views : views[v].pane = p

\* C14: while a child holds the drag capture every drag event goes to that
\* child and to no other, wherever the pointer is; a release whose button
\* has no bit in common with the mask that started the drag keeps the
\* capture, a release whose button has one ends it, presses and scrolls
\* leave it alone, and a drag that finds no capture takes the child under
\* the pointer (none if there is none).
C14_DragPinned ==
    StackAttached =>
        /\ (last.op = "on_mouse_drag" /\ last.was[1] # NoPane) =>
              /\ views["S"].dragging = last.was[1]
              /\ Len(calls) = 1
              /\ calls[1].l = Method(OwnerOf(last.was[1]), "on_mouse_drag")
        /\ (last.op = "on_mouse_drag" /\ last.was[1] = NoPane) =>
              IF Over(last.arg) = {}
              THEN views["S"].dragging = NoPane /\ calls = <<>>
              ELSE /\ OwnerOf(views["S"].dragging) \in Over(last.arg)
                   /\ Len(calls) = 1
                   /\ calls[1].l = Method(OwnerOf(views["S"].dragging),
                                          "on_mouse_drag")
        /\ last.op = "on_mouse_release" =>
              views["S"].dragging =
                  IF Common(last.arg[3], last.was[2]) THEN NoPane
                  ELSE last.was[1]
        /\ last.op \in {"on_mouse_press", "on_mouse_scroll"} =>
              views["S"].dragging = last.was[1]

\* A drag event at a point outside the capturing child has been delivered
\* to that child.
C14_Witness ==
    /\ StackAttached
    /\ last.op = "on_mouse_drag"
    /\ last.was[1] # NoPane
    /\ OwnerOf(last.was[1]) \notin Over(last.arg)
    /\ Len(calls) = 1

\* C15: a drag event dispatched after a press inside a child's active box,
\* and before the release of a button matching the press, is delivered to
\* that child and to no other.
C15_PressCapture ==
    (StackAttached /\ last.op = "on_mouse_drag" /\ shown # <<>>) =>
        /\ Len(calls) = 1
        /\ calls[1].l = Method(OwnerOf(shown[1]), "on_mouse_drag")

\* After a change of the pane's pointer position each child pane has the
\* position if its active box contains it and None otherwise.
PointerShown ==
    \A i \in 1..Len(Kids) :
        Val(PaneOf(Kids[i]), "mouse_pos_") =
            IF last.arg # None /\ Kids[i] \in Over(last.arg) THEN last.arg
            ELSE None

\* C16: after the pointer position of an attached stack's pane was set, the
\* child whose active box contains the pointer has that position, every
\* other child pane has None, and the cached mouseover child is the child
\* that contains the pointer, none when the pointer is in no child or has
\* left.
C16_PointerPos ==
    (StackAttached /\ last.op = "mouse_pos") =>
        /\ PointerShown
        /\ IF last.arg = None \/ Over(last.arg) = {}
           THEN views["S"].mouseover = NoPane
           ELSE OwnerOf(views["S"].mouseover) \in Over(last.arg)

(***************************************************************************)
(* Claims about the layers layout                                          *)
(***************************************************************************)
LayersAttached ==
    /\ views["S"].kind = "LayersLayout"
    /\ views["S"].pane = "P"
    /\ ~err

\* C17: every child of an attached layers layout has the layout's whole
\* allocated box as its allocated box, whatever the layout's alignment and
\* derived size, after attach and after every change of that box.
C17_LayersFullBox ==
    LayersAttached =>
        \A i \in 1..Len(Kids) :
            Val(PaneOf(Kids[i]), "alloc_coords_") = Val("P", "alloc_coords_")

\* The topmost child under the point: the last child in list order whose
\* active box contains it ("" if there is none).
TopOver(pt) ==
    IF Over(pt) = {} THEN NoObj
    ELSE Kids[CHOOSE i \in 1..Len(Kids) :
                 /\ Kids[i] \in Over(pt)
                 /\ \A j \in (i + 1)..Len(Kids) : Kids[j] \notin Over(pt)]

\* C18: a press on an attached layers layout reaches the topmost child whose
\* active box contains the point and no other child, and a pointer position
\* is shown by that child's pane and by no other.
C18_LayersRouting ==
    LayersAttached =>
        /\ last.op = "on_mouse_press" =>
              calls = IF Over(last.arg) = {} THEN <<>>
                      ELSE <<[l |-> Method(TopOver(last.arg), "on_mouse_press"),
                              v |-> last.arg]>>
        /\ last.op = "mouse_pos" =>
              \A i \in 1..Len(Kids) :
                  Val(PaneOf(Kids[i]), "mouse_pos_") =
                      IF last.arg # None /\ Kids[i] = TopOver(last.arg)
                      THEN last.arg ELSE None

(***************************************************************************)
(* Claims about a draw dispatch                                            *)
(***************************************************************************)
\* The views whose on_draw ran in the last dispatch, in the order of the
\* calls.
Drawn ==
    LET d == SelectSeq(calls, LAMBDA c : c.l.fn = "on_draw" /\ c.l.self \in DOMAIN views)
    IN [i \in 1..Len(d) |-> d[i].l.self]

\* C19: one draw dispatched to the pane of an attached tree runs on_draw of
\* a single view once if it is visible and not at all if it is hidden; for
\* a visible stack or layers layout it runs on_draw of every visible child
\* once, in list order, and of no hidden child; below a hidden layout
\* nothing is drawn.
C19_HiddenNotDrawn ==
    (views["S"].pane = "P" /\ ~err /\ last.op = "on_draw") =>
        Drawn = IF Val("S", "hidden_") THEN <<>>
                ELSE IF Kids = <<>> THEN <<"S">>
                ELSE SelectSeq(Kids, LAMBDA v : ~Val(v, "hidden_"))

\* A layout with a hidden and a visible child has been drawn.
C19_Witness ==
    /\ views["S"].pane = "P" /\ ~err /\ last.op = "on_draw"
    /\ Len(Kids) = 2
    /\ Val(Kids[1], "hidden_") /\ ~Val(Kids[2], "hidden_")
    /\ Drawn = <<Kids[2]>>

\* The places in the last dispatch where subscriber obj.on_draw was called.
DrawCalls(obj) == {i \in 1..Len(calls) : calls[i].l = Method(obj, "on_draw")}

\* C20: in a draw dispatch the pane's own subscriber, which paints the
\* fills, runs once and before anything of the attached view's on_draw
\* (for a layout: before any call made for a child), and when the view's
\* hidden check reports the event as handled neither the fills are painted
\* nor on_draw of the view runs.
C20_DrawOrder ==
    (views["S"].pane = "P" /\ ~err /\ last.op = "on_draw") =>
        \A v \in DOMAIN views :
            LET p == PaneOf(v)
                own == IF views[v].children = <<>> THEN DrawCalls(v)
                       ELSE UNION {DrawCalls(PaneOf(views[v].children[i])) :
                                      i \in 1..Len(views[v].children)}
            IN IF Val(v, "hidden_") THEN DrawCalls(p) = {} /\ DrawCalls(v) = {}
               ELSE DrawCalls(p) # {} =>
                       /\ Cardinality(DrawCalls(p)) = 1
                       /\ views[v].children = <<>> => own # {}
                       /\ \A i \in DrawCalls(p), j \in own : i < j

\* A visible view with a background colour has been drawn: the fill, then
\* the view's on_draw.
C20_Witness ==
    /\ views["S"].pane = "P" /\ ~err /\ last.op = "on_draw"
    /\ Kids = <<>>
    /\ Len(calls) = 2
    /\ calls[1].l = Method("P", "on_draw")
    /\ calls[1].v[2] # None
    /\ calls[2].l = Method("S", "on_draw")

(***************************************************************************)
(* Attaching, detaching and re-attaching a tree (vui/view.py,              *)
(* vui/layout.py, vui/pane.py)                                             *)
(***************************************************************************)
\* The trees of the events scenario, and a second pane Q.
InitAttach ==
    /\ \E kind \in {"FakeView", "HStackLayout", "LayersLayout"} :
          Starts(NewPane(EventScene(kind, FILL), "Q", InitBox))
    /\ shown = <<>>

\* S.attach(p); the history keeps the pane S had before.
AttachTo(p) ==
    /\ ~err
    /\ \A i \in DOMAIN views["S"].children :
          views[views["S"].children[i]].made < MaxAttach
    /\ Commit(Attach(Heap, "S", p))
    /\ last' = [op |-> "attach", arg |-> p, was |-> views["S"].pane]
    /\ UNCHANGED shown

\* S.detach()
DetachTree ==
    /\ ~err
    /\ Commit(Detach(Heap, "S"))
    /\ last' = [op |-> "detach", arg |-> "S"]
    /\ UNCHANGED shown

\* S.background_color = c
SetBackground(c) ==
    /\ ~err
    /\ Commit(SetAttr(Heap, "S", "background_color_", c))
    /\ last' = [op |-> "background", arg |-> c]
    /\ UNCHANGED shown

NextAttach ==
    \/ \E p \in {"P", "Q"} : AttachTo(p)
    \/ DetachTree
    \/ \E c \in {None, Some(2)} : SetBackground(c)
    \/ \E w \in {MaxSpan, MaxSpan + 1} :
          ResizeStack(<<0, 0, w * Grain, (MaxSpan + 1) * Grain>>)
    \/ Event("on_draw", <<>>)
    \/ \E pt \in {<<Grain \div 2, Grain \div 2>>, <<2 * Grain, Grain>>} :
          \/ MovePointer(pt)
          \/ Event("on_mouse_drag", <<pt[1], pt[2], 1>>)

SpecAttach == InitAttach /\ [][NextAttach]_vars

(***************************************************************************)
(* Claims about the background fill and about detaching                    *)
(***************************************************************************)
\* C21: in every state, on every pane, the fill shape is absent iff the
\* pane's current background colour is None, and otherwise it is a rectangle
\* with the pane's current active box and that colour.
C21_FillMirrorsBackground ==
    ~err => \A p \in DOMAIN panes :
               panes[p].bg = Shape(Val(p, "coords_"), Val(p, "background_color_"))

Range(q) == {q[i] : i \in DOMAIN q}

\* The listeners of the view S on pane p: its bound methods among the
\* observers of the pane's cells, and its subscribers on the pane's events.
ObserversOn(p) ==
    UNION {{l \in Range(cells[attr[p][a]].obs) : l.self = "S"} :
              a \in {"alloc_coords_", "coords_", "mouse_pos_", "background_color_"}}

HandlersOn(p) == {h \in Range(panes[p].handlers) : h.self = "S"}

AttachedTo(p) ==
    views["S"].pane = p /\ Method("S", "_update_pane") \in ObserversOn(p)

Unsubscribed(p) == ObserversOn(p) = {} /\ HandlersOn(p) = {}

\* C22: a pane the view is attached to has the view's background colour,
\* whatever was assigned to it since; right after detach() the view has no
\* observer and no handler left on a pane, and as long as that is so the
\* pane's background is None and an event dispatched to the pane calls no
\* method of the view.
C22_Detach ==
    ~err =>
       /\ \A p \in {"P", "Q"} :
             /\ AttachedTo(p) =>
                   Val(p, "background_color_") = Val("S", "background_color_")
             /\ Unsubscribed(p) => Val(p, "background_color_") = None
             /\ last.op = "detach" => Unsubscribed(p)
       /\ Unsubscribed("P") => \A i \in DOMAIN calls : calls[i].l.self # "S"

C22_Witness ==
    /\ ~err /\ last.op = "on_draw" /\ calls # <<>>
    /\ views["S"].pane = "P" /\ Unsubscribed("P")
    /\ Val("S", "background_color_") = Some(2)

\* How many entries of the sequence q belong to the view S.
CountOf(q) == Cardinality({i \in DOMAIN q : q[i].self = "S"})

\* C23: in every state a pane other than the one the view holds has none of
\* the view's observers and handlers and no background; right after
\* attach(p) the view holds p and p has exactly one set of the view's
\* subscriptions (one _update_pane on the allocated box, for a layout one
\* observer each on the active box and the pointer position, one hidden
\* check and one of each of its own handlers); and the active box of the
\* pane the view is attached to is the view's alignment of its derived size
\* in that pane's allocated box.
C23_OnePane ==
    ~err =>
       /\ \A p \in {"P", "Q"} :
             /\ p # views["S"].pane =>
                   Unsubscribed(p) /\ Val(p, "background_color_") = None
             /\ AttachedTo(p) =>
                   LET a == Val(p, "alloc_coords_")
                       x == CalcCoords(a[1], a[3], Val("S", "derived_width_"),
                                       Val("S", "halign_"))
                       y == CalcCoords(a[2], a[4], Val("S", "derived_height_"),
                                       Val("S", "valign_"))
                   IN Val(p, "coords_") = <<x[1], y[1], x[2], y[2]>>
       /\ last.op = "attach" =>
             LET p == last.arg
                 n == IF IsLayout(Heap, "S") THEN 1 ELSE 0
             IN /\ views["S"].pane = p
                /\ CountOf(cells[attr[p].alloc_coords_].obs) = 1
                /\ CountOf(cells[attr[p].coords_].obs) = n
                /\ CountOf(cells[attr[p].mouse_pos_].obs) = n
                /\ CountOf(cells[attr[p].background_color_].obs) = 0
                /\ CountOf(panes[p].handlers) = 1 + Len(OwnHandlers(Heap, "S"))

\* A stack moved from P to Q.
C23_Witness ==
    /\ ~err /\ last.op = "attach" /\ last.was = "P" /\ last.arg = "Q"
    /\ views["S"].kind = "HStackLayout"

\* C24: the pane a stack remembers as under the pointer, and the one it
\* remembers as dragged, is none or the pane one of its children holds now.
C24_CacheAttached ==
    (~err /\ views["S"].kind = "HStackLayout") =>
       \A m \in {views["S"].mouseover, views["S"].dragging} :
          m = NoPane \/ \E ch \in Range(views["S"].children) : views[ch].pane = m

(***************************************************************************)
(* The root adapter (vui/layout.py RootLayout); P is its child_pane        *)
(***************************************************************************)
\* The observer the test registers on the root pane's pointer position.
Callback == Listener("callback", NoObj, "log")

\* layout = RootLayout(window) over a window of the size of P, with no child
\* yet; S is a plain view or a stack, T another view.
InitRoot ==
    /\ \E kind \in {"FakeView", "HStackLayout"} :
       \E s0 \in {EventScene(kind, FILL)} :
       \E s1 \in {NewView(s0, "T", "FakeView", <<>>,
                      [ViewDefaults EXCEPT !.background_color = Some(2)], <<>>)} :
          Starts([ObserveCell(s1, s1.attr["P"].mouse_pos_, Callback)
                    EXCEPT !.views = @ @@
                       ("R" :> [kind |-> "RootLayout", child |-> NoObj,
                                pane |-> "P"])])
    /\ shown = <<>>

\* layout.child = v; the history keeps the child it replaces.
SetChildM(v) ==
    /\ ~err
    /\ \A i \in DOMAIN views[v].children :
          views[views[v].children[i]].made < MaxAttach
    /\ Commit(Attach([Heap EXCEPT !.views["R"].child = v], v, "P"))
    /\ last' = [op |-> "child", arg |-> v, was |-> views["R"].child]
    /\ UNCHANGED shown

SetChild(v) ==
    /\ ~err
    /\ \A i \in DOMAIN views[v].children :
          views[views[v].children[i]].made < MaxAttach
    /\ LET old == views["R"].child
           s1 == IF old = NoObj THEN Heap ELSE Detach(Heap, old)
       IN Commit(Attach([s1 EXCEPT !.views["R"].child = v], v, "P"))
    /\ last' = [op |-> "child", arg |-> v, was |-> views["R"].child]
    /\ UNCHANGED shown

\* layout.on_mouse_enter / on_mouse_leave / on_mouse_motion / on_mouse_drag
\* at pt (drag with button 1); the history keeps the position before.
OnMouseM(ev, pt) ==
    /\ ~err
    /\ LET s1 == SetAttr(Heap, "P", "mouse_pos_", pt)
       IN Commit(IF ev = "on_mouse_drag"
                 THEN Dispatch(s1, "P", ev, <<pt[1], pt[2], 1>>) ELSE s1)
    /\ last' = [op |-> ev, arg |-> pt, was |-> Val("P", "mouse_pos_")]
    /\ UNCHANGED shown

OnMouse(ev, pt) ==
    /\ ~err
    /\ LET s1 == SetAttr(Heap, "P", "mouse_pos_",
                         IF ev = "on_mouse_leave" THEN None ELSE pt)
       IN Commit(IF ev = "on_mouse_drag"
                 THEN Dispatch(s1, "P", ev, <<pt[1], pt[2], 1>>) ELSE s1)
    /\ last' = [op |-> ev, arg |-> pt, was |-> Val("P", "mouse_pos_")]
    /\ UNCHANGED shown

NextRoot ==
    \/ \E v \in {"S", "T"} : SetChild(v)
    \/ \E ev \in {"on_mouse_enter", "on_mouse_leave", "on_mouse_motion",
                   "on_mouse_drag"},
          pt \in {<<Grain \div 2, Grain \div 2>>, <<2 * Grain, Grain>>} :
          OnMouse(ev, pt)
    \/ \E w \in {MaxSpan, MaxSpan + 1} :
          ResizeStack(<<0, 0, w * Grain, (MaxSpan + 1) * Grain>>)
    \/ Event("on_draw", <<>>)

SpecRoot == InitRoot /\ [][NextRoot]_vars

(***************************************************************************)
(* Claims about the root adapter                                           *)
(***************************************************************************)
\* The tree as it is now, attached to a new pane F with the allocated box
\* of P.
Reattached == Attach(NewPane(Heap, "F", Val("P", "alloc_coords_")), "S", "F")

\* The active and allocated box of p, and of the pane q of another heap.
SameBoxes(p, s, q) ==
    /\ Val(p, "coords_") = Get(s, q, "coords_")
    /\ Val(p, "alloc_coords_") = Get(s, q, "alloc_coords_")

\* C25: when on_resize has returned, the root pane's allocated box is the
\* window's, and the active box of the root pane and both boxes of every
\* descendant's pane are those of the same tree attached to a new pane of
\* that size.
C25_ResizeAsFresh ==
    (~err /\ last.op = "resize" /\ views["S"].pane = "P") =>
       LET s == Reattached
       IN /\ ~s.err
          /\ Val("P", "alloc_coords_")[1] = 0 /\ Val("P", "alloc_coords_")[2] = 0
          /\ Val("P", "coords_") = Get(s, "F", "coords_")
          /\ \A ch \in Range(views["S"].children) :
                SameBoxes(views[ch].pane, s, s.views[ch].pane)

\* C26: when a pointer handler of the root adapter has returned, the root
\* pane's pointer position is None after a leave and the event's point after
\* an enter, a motion or a drag, and the observer of the position has been
\* called once with the new value if the value changed and not at all if it
\* did not (a leave while it was None included).
C26_PointerCell ==
    (~err /\ last.op \in {"on_mouse_enter", "on_mouse_leave", "on_mouse_motion",
                           "on_mouse_drag"}) =>
       LET new == IF last.op = "on_mouse_leave" THEN None ELSE last.arg
       IN /\ Val("P", "mouse_pos_") = new
          /\ SelectSeq(calls, LAMBDA c : c.l = Callback) =
                IF new = last.was THEN <<>> ELSE <<[l |-> Callback, v |-> new]>>

\* The pointer leaves the window while a stack is the root's child.
C26_Witness ==
    /\ ~err /\ last.op = "on_mouse_leave" /\ last.was # None
    /\ views["R"].child = "S" /\ views["S"].kind = "HStackLayout"
    /\ Callback \in {calls[i].l : i \in DOMAIN calls}

\* An event handler of view v, or of a child of v, has been called.
Reached(v) ==
    \E i \in DOMAIN calls :
       calls[i].l.self \in {v} \cup Range(views[v].children)

\* C27: when layout.child = v has returned, and in every later state until
\* the next replacement, the root pane's background colour is that of v
\* (None if v has none); a draw event on the root pane then calls the
\* on_draw of v (of its children, for a stack) and no handler of the other
\* view.
C27_ChildReplaced ==
    (~err /\ views["R"].child # NoObj) =>
       LET v == views["R"].child
       IN /\ last.op = "child" => last.arg = v
          /\ Val("P", "background_color_") = Val(v, "background_color_")
          /\ last.op = "on_draw" =>
                /\ Reached(v)
                /\ \A o \in {"S", "T"} \ {v} : ~Reached(o)

\* A draw after the view T has replaced the stack S.
C27_Witness ==
    /\ ~err /\ last.op = "on_draw" /\ views["R"].child = "T"
    /\ views["S"].pane = "P" /\ views["S"].kind = "HStackLayout"
    /\ Reached("T")

(***************************************************************************)
(* Pointer input to a stack with hidden children                           *)
(***************************************************************************)
\* The trees of the events scenario with children hidden and revealed
\* between presses and pointer moves.
NextHidden ==
    \/ AttachReflow
    \/ \E v \in DOMAIN views \ {"S"} : ToggleHidden(v)
    \/ \E pt \in Points : Event("on_mouse_press", <<pt[1], pt[2], 1>>)
    \/ \E pt \in Points : MovePointer(pt)

SpecHidden == InitEvents /\ [][NextHidden]_vars

\* C31: when a press or a pointer position has been dispatched to an
\* attached stack, no hidden child's handler has been called and no hidden
\* child's pane holds the position.
C31_HiddenNoInput ==
    (StackAttached /\ last.op \in {"on_mouse_press", "mouse_pos"}) =>
        \A i \in 1..Len(Kids) :
            ~Shown(i) =>
                /\ \A j \in DOMAIN calls : calls[j].l.self # Kids[i]
                /\ last.op = "mouse_pos" =>
                      Val(PaneOf(Kids[i]), "mouse_pos_") # last.arg

(***************************************************************************)
(* A view changed while it is attached and after it has been detached      *)
(***************************************************************************)
\* S.<name> = x for one of the view's attributes; the history keeps the
\* active box of the pane the view holds, as it was before the call.
ChangeView(name, x) ==
    /\ ~err
    /\ Commit(SetAttr(Heap, "S", name, x))
    /\ last' = [op |-> "view", arg |-> name,
                was |-> IF views["S"].pane = NoPane THEN <<>>
                        ELSE Val(views["S"].pane, "coords_")]
    /\ UNCHANGED shown

NextDetached ==
    \/ AttachTo("P")
    \/ DetachTree
    \/ \E x \in {None, Some(Grain)} : ChangeView("min_width_", x)
    \/ \E x \in BOOLEAN : ChangeView("hidden_", x)
    \/ \E x \in {LEFT, FILL} : ChangeView("halign_", x)
    \/ \E x \in {CENTER, FILL} : ChangeView("valign_", x)

SpecDetached == InitAttach /\ [][NextDetached]_vars

\* C32: when an attribute of a view that has no observer and no handler
\* left on the pane it was attached to has been assigned, that pane's
\* active box is what it was before the assignment.
C32_DetachedNoWrite ==
    (~err /\ last.op = "view" /\ views["S"].pane # NoPane
          /\ Unsubscribed(views["S"].pane)) =>
        Val(views["S"].pane, "coords_") = last.was

(***************************************************************************)
(* A pane with a fill colour for its allocated box (vui/pane.py)           *)
(***************************************************************************)
\* view = View(min_width=w0); pane = Pane(..., alloc_background_color=1)
InitFill ==
    /\ \E w0 \in Dims :
          Starts(SetAttr(ViewScene(w0), "P", "alloc_background_color_", Some(1)))
    /\ shown = <<>>

NextFill ==
    \/ AttachView
    \/ \E a \in Aligns : SetHAlign("V", a)
    \/ \E box \in Boxes : SetAllocCoords("P", box)

SpecFill == InitFill /\ [][NextFill]_vars

\* C33: in every state the allocated-box fill of the pane, which has an
\* allocated-box fill colour, is a rectangle over the pane's current
\* allocated box in that colour.
C33_AllocFill ==
    ~err => panes["P"].alloc_bg =
               Shape(Val("P", "alloc_coords_"), Val("P", "alloc_background_color_"))

(***************************************************************************)
(* Scenario: listeners that unregister or set the cell while it notifies   *)
(***************************************************************************)
\* Clients of one Observable: two logging functions, a function that
\* unregisters itself, one that unregisters f1, and two that set the cell
\* from inside the notification (to 0, and to 1 when it is above 1).
LoopListeners ==
    { Listener("f1", NoObj, "log"), Listener("f2", NoObj, "log"),
      Listener("stop", NoObj, "stop"), Listener("drop", NoObj, "drop"),
      Listener("again", NoObj, "again"), Listener("clamp", NoObj, "clamp") }

NextLoop ==
    \/ \E v \in 0..MaxVal : ObsSet(v)
    \/ \E l \in LoopListeners : ObsObserve(l)
    \/ \E x \in {"f1", "again"} : ObsRemove(x)

SpecLoop == InitObs /\ [][NextLoop]_vars

\* The listeners of a list that run one of the functions fns.
Running(obs, fns) == {i \in 1..Len(obs) : obs[i].fn \in fns}

\* C34: after a set(v) that changed the cell and during which listeners
\* unregistered themselves or others (and none set the cell again), every
\* listener that is still registered has been invoked by that set.
C34_RemovalLosesNone ==
    (last.op = "set" /\ last.arg # last.val /\ Running(last.obs, {"again", "clamp"}) = {}) =>
        \A i \in 1..Len(cells[Cell].obs) :
            \E j \in 1..Len(calls) : calls[j].l = cells[Cell].obs[i]

\* The cell's value when the j-th call of the last set was made: the
\* argument of set, then whatever the latest re-entrant set made of it.
RECURSIVE ValueAt(_)
ValueAt(j) ==
    IF j = 1 THEN last.arg
    ELSE IF calls[j - 1].l.fn = "again" THEN 0
    ELSE IF calls[j - 1].l.fn = "clamp" /\ calls[j - 1].v > 1 THEN 1
    ELSE ValueAt(j - 1)

\* The last call the listener l received.
LastCallOf(l) ==
    CHOOSE j \in 1..Len(calls) :
        /\ calls[j].l = l
        /\ \A k \in (j + 1)..Len(calls) : calls[k].l # l

\* C35: when listeners set the cell again while set(v) is notifying (and
\* none unregisters a listener), every listener call receives the value the
\* cell holds at that moment, every registered listener is invoked, and the
\* last value each of them received is the cell's final value.
C35_ReentrantSet ==
    (last.op = "set" /\ last.arg # last.val
                     /\ Running(last.obs, {"stop", "drop"}) = {}) =>
        /\ \A j \in 1..Len(calls) : calls[j].v = ValueAt(j)
        /\ \A i \in 1..Len(cells[Cell].obs) :
              LET l == cells[Cell].obs[i]
              IN  /\ \E j \in 1..Len(calls) : calls[j].l = l
                  /\ calls[LastCallOf(l)].v = cells[Cell].value

\* A set(v) during which the re-entrant listener changed the cell again,
\* after a logging listener had already received v.
C35_Witness ==
    /\ last.op = "set" /\ last.arg # last.val
    /\ Running(last.obs, {"stop", "drop"}) = {}
    /\ \E j \in 1..Len(calls) :
          /\ calls[j].l.fn = "again" /\ calls[j].v # 0
          /\ \E k \in 1..(j - 1) : calls[k].l.fn = "log" /\ calls[k].v = last.arg
    /\ cells[Cell].value = 0

(***************************************************************************)
(* Claims about what a resize may change                                   *)
(***************************************************************************)
\* What a view asks for: the inputs and results of sizing.
SizingNames ==
    {"min_width_", "min_height_", "content_width_", "content_height_",
     "derived_width_", "derived_height_", "flex_width_", "flex_height_",
     "hidden_", "halign_", "valign_"}

\* C36: assigning a new allocated box to the pane of the tree leaves the
\* minimum, content and derived sizes, the flex flags, the hidden flag and
\* the alignment of every view of the tree as they were before the call.
C36_NoFeedback ==
    last.op = "resize" =>
        \A v \in DOMAIN last.was :
            \A n \in SizingNames : Val(v, n) = last.was[v][n]

\* A resize of an attached stack that has moved the tree's active box and
\* the allocated box of a child.
C36_Witness ==
    /\ last.op = "resize" /\ StackAttached
    /\ Val("P", "coords_") = <<0, 0, MaxSpan * Grain, (MaxSpan + 1) * Grain>>
    /\ \E i \in 1..Len(Kids) :
          Shown(i) /\ Val(PaneOf(Kids[i]), "alloc_coords_")[3] = MaxSpan * Grain

(***************************************************************************)
(* Claims about the end of a cascade                                       *)
(***************************************************************************)
\* C37: in a tree of a layered layout over a view and a stack of two views,
\* every change of a minimum size, a content size or a hidden flag runs its
\* listeners to the end and returns: no call leaves the cascade by raising.
C37_CascadeReturns == ~err

(***************************************************************************)
(* Claims about the end of a drag                                          *)
(***************************************************************************)
\* C38: when a child of an attached stack holds the drag capture and a
\* release of a button the capture was taken with arrives at a point outside
\* that child's active box, the child's release handler is called.
C38_ReleaseToOwner ==
    (/\ StackAttached /\ last.op = "on_mouse_release"
     /\ last.was[1] # NoPane /\ Common(last.arg[3], last.was[2])
     /\ OwnerOf(last.was[1]) \notin Over(last.arg)) =>
        \E j \in 1..Len(calls) :
            calls[j].l = Method(OwnerOf(last.was[1]), "on_mouse_release")

====
